---------------------------- MODULE Spec2Model ----------------------------
(***************************************************************************)
(* DomainHub admin API: the Express route layer (server/routes.ts), the    *)
(* session authentication (server/auth.ts), the storage layer              *)
(* (server/storage.ts) and the PostgreSQL schema (shared/schema.ts) with   *)
(* the constraints the schema declares.                                    *)
(*                                                                         *)
(* A request is handled in the steps in which Node runs it: the session    *)
(* is loaded and isAuthenticated decides (Receive), then the handler runs    *)
(* up to and including its storage statement (Handle...).  Each SQL        *)
(* statement is atomic; between the steps of one request the steps of      *)
(* other requests may run.  The createdAt/updatedAt columns and the columns *)
(* no route or claim distinguishes (titles, descriptions, ...) are left    *)
(* out of the rows.                                                        *)
(***************************************************************************)
EXTENDS Integers, Sequences, FiniteSets, TLC

(***************************************************************************)
(* Bounds of the model.                                                    *)
(***************************************************************************)
MaxDomainSeq == 2      \* ids the domains_id_seq sequence may hand out
MaxPageSeq == 2        \* ids the pages_id_seq sequence may hand out
MaxFaqSeq == 2         \* ids the faqs_id_seq sequence may hand out
MaxUserSeq == 2        \* user rows ever created (gen_random_uuid values)
NumSalts == 1          \* distinct salts bcrypt.hash may draw
MaxBoots == 2          \* server start-ups (setupAuth runs)
MaxSections == 1       \* sections a user adds in the page editor
MaxDialogFaqs == 1     \* FAQs a user adds to the list of the FAQ dialog

(***************************************************************************)
(* JSON values of request bodies and path parameters.  A value carries its *)
(* JavaScript type; "undefined" is an absent key, "nan" is the number NaN, *)
(* an "object" carries its entries.                                        *)
(***************************************************************************)
Undefined == [t |-> "undefined", s |-> "", n |-> 0, b |-> FALSE, o |-> {}]
Str(x) == [t |-> "string", s |-> x, n |-> 0, b |-> FALSE, o |-> {}]
Num(x) == [t |-> "number", s |-> "", n |-> x, b |-> FALSE, o |-> {}]
Bool(x) == [t |-> "boolean", s |-> "", n |-> 0, b |-> x, o |-> {}]
NaN == [t |-> "nan", s |-> "", n |-> 0, b |-> FALSE, o |-> {}]
\* an object: the set of its <<key, value>> entries, one per key
Obj(x) == [t |-> "object", s |-> "", n |-> 0, b |-> FALSE, o |-> x]

Digits == <<"0", "1", "2", "3", "4", "5", "6", "7", "8", "9">>
IsDigit(c) == \E i \in 1..10 : Digits[i] = c
DigitVal(c) == (CHOOSE i \in 1..10 : Digits[i] = c) - 1

RECURSIVE DigitPrefix(_, _)
\* value of the longest prefix of digits of cs, continuing from acc
DigitPrefix(cs, acc) ==
  IF cs = <<>> \/ ~IsDigit(Head(cs)) THEN acc
  ELSE DigitPrefix(Tail(cs), 10 * acc + DigitVal(Head(cs)))

\* parseInt(req.params.x): the leading digits, NaN when there are none
parseInt(cs) ==
  IF cs = <<>> \/ ~IsDigit(Head(cs)) THEN NaN ELSE Num(DigitPrefix(cs, 0))

(***************************************************************************)
(* Request bodies: a JSON object, here over the keys the schemas know; a   *)
(* key the object lacks is undefined.                                      *)
(***************************************************************************)
EmptyBody ==
  [name |-> Undefined, isActive |-> Undefined, domainId |-> Undefined,
   status |-> Undefined, faqsEnabled |-> Undefined,
   footerDescription |-> Undefined, websiteTitle |-> Undefined,
   sectionsJson |-> Undefined,
   pageId |-> Undefined, question |-> Undefined, answer |-> Undefined,
   sortOrder |-> Undefined,
   email |-> Undefined, password |-> Undefined, role |-> Undefined]

(***************************************************************************)
(* zod schemas derived from the tables (createInsertSchema(...).omit(id,   *)
(* createdAt, updatedAt)).  A notNull column without default is required;  *)
(* every other column is optional.  parse throws on a key of the wrong     *)
(* type and returns the object without the keys the schema does not know.  *)
(***************************************************************************)
zString(v) == v.t = "string"
zNumber(v) == v.t = "number"          \* z.number() rejects NaN
zBoolean(v) == v.t = "boolean"
zOptional(v) == v.t = "undefined"
\* the schema of a jsonb column: any JSON value
zJson(v) == v.t \in {"string", "number", "boolean", "object"}

DomainKeys == {"name", "isActive"}
PageKeys == {"domainId", "name", "status", "faqsEnabled", "sectionsJson"}
DomainSettingsKeys == {"domainId", "footerDescription"}
SeoSettingsKeys == {"domainId", "websiteTitle"}
FaqKeys == {"pageId", "question", "answer", "sortOrder", "isActive"}
UserKeys == {"email", "password", "role", "isActive"}

\* what parse returns: the keys of the schema
Strip(body, keys) ==
  [k \in DOMAIN body |-> IF k \in keys THEN body[k] ELSE Undefined]

insertDomainSchema(body) ==
  /\ zString(body.name)
  /\ zOptional(body.isActive) \/ zBoolean(body.isActive)

insertDomainSchemaPartial(body) ==
  /\ zOptional(body.name) \/ zString(body.name)
  /\ zOptional(body.isActive) \/ zBoolean(body.isActive)

insertPageSchema(body) ==
  /\ zOptional(body.domainId) \/ zNumber(body.domainId)
  /\ zString(body.name)
  /\ zOptional(body.status) \/ zString(body.status)
  /\ zOptional(body.faqsEnabled) \/ zBoolean(body.faqsEnabled)
  /\ zOptional(body.sectionsJson) \/ zJson(body.sectionsJson)

insertPageSchemaPartial(body) ==
  /\ zOptional(body.domainId) \/ zNumber(body.domainId)
  /\ zOptional(body.name) \/ zString(body.name)
  /\ zOptional(body.status) \/ zString(body.status)
  /\ zOptional(body.faqsEnabled) \/ zBoolean(body.faqsEnabled)
  /\ zOptional(body.sectionsJson) \/ zJson(body.sectionsJson)

insertDomainSettingsSchema(body) ==
  /\ zOptional(body.domainId) \/ zNumber(body.domainId)
  /\ zOptional(body.footerDescription) \/ zString(body.footerDescription)

insertSeoSettingsSchema(body) ==
  /\ zOptional(body.domainId) \/ zNumber(body.domainId)
  /\ zOptional(body.websiteTitle) \/ zString(body.websiteTitle)

insertFaqSchema(body) ==
  /\ zNumber(body.pageId)
  /\ zString(body.question)
  /\ zString(body.answer)
  /\ zOptional(body.sortOrder) \/ zNumber(body.sortOrder)
  /\ zOptional(body.isActive) \/ zBoolean(body.isActive)

insertFaqSchemaPartial(body) ==
  /\ zOptional(body.pageId) \/ zNumber(body.pageId)
  /\ zOptional(body.question) \/ zString(body.question)
  /\ zOptional(body.answer) \/ zString(body.answer)
  /\ zOptional(body.sortOrder) \/ zNumber(body.sortOrder)
  /\ zOptional(body.isActive) \/ zBoolean(body.isActive)

insertUserSchema(body) ==
  /\ zString(body.email)
  /\ zString(body.password)
  /\ zOptional(body.role) \/ zString(body.role)
  /\ zOptional(body.isActive) \/ zBoolean(body.isActive)

(***************************************************************************)
(* bcrypt.  A stored password is a text; a bcrypt hash is a text of the    *)
(* bcrypt format that depends on the salt and the password, any other text *)
(* is no hash and matches nothing.                                         *)
(***************************************************************************)
Salts == 1..NumSalts
PlainText(p) == [fmt |-> "plain", salt |-> 0, of |-> p]
bcryptHash(p, salt) == [fmt |-> "$2b$", salt |-> salt, of |-> p]
bcryptCompare(p, stored) ==
  stored.fmt = "$2b$" /\ stored = bcryptHash(p, stored.salt)


(***************************************************************************)
(* State.                                                                  *)
(***************************************************************************)
VARIABLES
  users,           \* table users
  domains,         \* table domains
  pages,           \* table pages
  domainSettings,  \* table domain_settings
  seoSettings,     \* table seo_settings
  faqs,            \* table faqs
  seq,             \* the serial sequences (and the count of generated uuids)
  sessions,        \* table sessions: the userId the stored session carries
  req,             \* per connection, its request: in flight or answered
  boot,            \* the start-ups running initializeDefaultUser
  plain,           \* per email, the password its user was created with
  loggedOut,       \* sessions whose latest successful login or logout is a logout
  snaps,           \* per connection with a stats request, the <<domains,
                   \* pages>> tables the database has held from the arrival
                   \* of the request to its answer
  client           \* the admin screens of browser 1: React state and query cache

tables == <<users, domains, pages, domainSettings, seoSettings, faqs>>
vars == <<users, domains, pages, domainSettings, seoSettings, faqs, seq,
          sessions, req, boot, plain, loggedOut, snaps, client>>

NoUser == 0                      \* a session without userId
Sids == {1, 2}                   \* browser sessions (cookies)
Slots == {1, 2}                  \* connections
Boots == 1..MaxBoots
Emails == {"admin@gmail.com", "bob@x.io"}

(***************************************************************************)
(* The schema's constraints (shared/schema.ts).                            *)
(***************************************************************************)
\* (mutant) domains.name without .unique()
UniqueColumnsNameFree(table) ==
  CASE table = "users" -> {"id", "email"}
    [] OTHER -> {"id"}

\* (mutant) users.email without .unique()
UniqueColumnsEmailFree(table) ==
  CASE table = "domains" -> {"id", "name"}
    [] OTHER -> {"id"}

\* the columns that carry a unique index: primary keys and .unique()
UniqueColumns(table) ==
  CASE table = "users" -> {"id", "email"}
    [] table = "domains" -> {"id", "name"}
    [] OTHER -> {"id"}

\* (mutant) domainId columns without .references(() => domains.id)
ReferencesDomainUnchecked(id) == FALSE

\* .references(() => domains.id) without onDelete: NO ACTION
ReferencesDomain(id) ==
  \/ \E p \in pages : p.domainId = id
  \/ \E s \in domainSettings : s.domainId = id
  \/ \E s \in seoSettings : s.domainId = id

\* a row that repeats another row's value in a unique column
UniqueViolation(table, tbl, row) ==
  \E c \in UniqueColumns(table) : \E x \in tbl : x.id # row.id /\ x[c] = row[c]

DomainExists(id) == \E d \in domains : d.id = id
PageExists(id) == \E p \in pages : p.id = id

\* the outcome of a statement: its table afterwards and the rows it returns.
\* Violation: a constraint refused the row after it was formed (an INSERT has
\* then drawn its id from the sequence).  DbError: the statement was refused
\* before any row was formed.
Ok(tbl, rows) == [ok |-> TRUE, formed |-> TRUE, tbl |-> tbl, rows |-> rows]
Violation(tbl) == [ok |-> FALSE, formed |-> TRUE, tbl |-> tbl, rows |-> {}]
DbError(tbl) == [ok |-> FALSE, formed |-> FALSE, tbl |-> tbl, rows |-> {}]

\* (mutant) columns without .default(...)
DefaultMissing(v, d, x) == x

\* the value of a column: d (the column's default on insert, the stored value
\* on update) when the statement does not name the column, else x
Default(v, d, x) == IF v.t = "undefined" THEN d ELSE x

(***************************************************************************)
(* DatabaseStorage (server/storage.ts).  Each method is one SQL statement. *)
(***************************************************************************)
getUser(id) == {u \in users : u.id = id}

\* (mutant) a lookup by email that finds nobody
getUserByEmailNobody(email) == {}

getUserByEmail(email) == {u \in users : u.email = email}
getUsers == users

createUser(data) ==
  LET row == [id |-> seq.users + 1,
              email |-> data.email.s,
              password |-> data.password,
              role |-> Default(data.role, "admin", data.role.s),
              isActive |-> Default(data.isActive, TRUE, data.isActive.b)]
  IN IF UniqueViolation("users", users, row)
       THEN Violation(users)
       ELSE Ok(users \cup {row}, {row})

createDomain(data) ==
  LET row == [id |-> seq.domains + 1,
              name |-> data.name.s,
              isActive |-> Default(data.isActive, TRUE, data.isActive.b)]
  IN IF UniqueViolation("domains", domains, row)
       THEN Violation(domains)
       ELSE Ok(domains \cup {row}, {row})

updateDomain(id, data) ==
  LET upd(d) == [d EXCEPT
                   !.name = Default(data.name, @, data.name.s),
                   !.isActive = Default(data.isActive, @, data.isActive.b)]
      hit == {d \in domains : d.id = id.n}
      new == {upd(d) : d \in hit}
      rest == domains \ hit
  IN IF id.t = "nan" THEN DbError(domains)
     ELSE IF \E n \in new : UniqueViolation("domains", rest, n) THEN Violation(domains)
     ELSE Ok(rest \cup new, new)

deleteDomain(id) ==
  IF id.t = "nan" THEN DbError(domains)
  ELSE IF DomainExists(id.n) /\ ReferencesDomain(id.n) THEN Violation(domains)
  ELSE Ok({d \in domains : d.id # id.n}, {})

\* (mutant) a page lookup without its where clause
getPagesOfAnyDomain(domainId) == pages

getPagesByDomain(domainId) == {p \in pages : p.domainId = domainId}
getDomainSettings(domainId) == {x \in domainSettings : x.domainId = domainId}

createPage(data) ==
  LET row == [id |-> seq.pages + 1,
              domainId |-> data.domainId.n,
              name |-> data.name.s,
              status |-> Default(data.status, "draft", data.status.s),
              faqsEnabled |-> Default(data.faqsEnabled, FALSE, data.faqsEnabled.b),
              sectionsJson |-> Default(data.sectionsJson, Obj({}), data.sectionsJson)]
  IN IF ~DomainExists(row.domainId)
       THEN Violation(pages)
       ELSE Ok(pages \cup {row}, {row})

updatePage(id, data) ==
  LET upd(p) == [p EXCEPT
                   !.domainId = Default(data.domainId, @, data.domainId.n),
                   !.name = Default(data.name, @, data.name.s),
                   !.status = Default(data.status, @, data.status.s),
                   !.faqsEnabled = Default(data.faqsEnabled, @, data.faqsEnabled.b),
                   !.sectionsJson = Default(data.sectionsJson, @, data.sectionsJson)]
      hit == {p \in pages : p.id = id.n}
      new == {upd(p) : p \in hit}
  IN IF id.t = "nan" THEN DbError(pages)
     ELSE IF \E n \in new : ~DomainExists(n.domainId) THEN Violation(pages)
     ELSE Ok((pages \ hit) \cup new, new)

\* (mutant) faqs.pageId without onDelete: "cascade" and without a check
deletePageCascadeNone(id) == faqs

\* faqs.pageId references pages.id with onDelete: "cascade"
deletePage(id) ==
  IF id.t = "nan" THEN DbError(pages)
  ELSE Ok({p \in pages : p.id # id.n}, {})

deletePageCascade(id) == {f \in faqs : f.pageId # id.n}

\* INSERT ... ON CONFLICT (target) DO UPDATE SET set: PostgreSQL refuses the
\* statement when no unique index matches the conflict target; otherwise a
\* conflicting row takes the columns named in set, and a new row is
\* inserted when the referenced domain exists
onConflictDoUpdate(table, target, tbl, row, set) ==
  IF target \notin UniqueColumns(table) THEN DbError(tbl)
  ELSE IF ~DomainExists(row.domainId) THEN Violation(tbl)
  ELSE LET hit == {x \in tbl : x[target] = row[target]}
           new == {[c \in DOMAIN x |-> IF c \in set THEN row[c] ELSE x[c]] : x \in hit}
       IN IF hit = {} THEN Ok(tbl \cup {row}, {row})
          ELSE Ok((tbl \ hit) \cup new, new)

\* the columns an object literal { ...data } sets: its defined keys
DefinedKeys(data) == {k \in DOMAIN data : data[k].t # "undefined"}

upsertDomainSettings(settings) ==
  LET row == [id |-> seq.domainSettings + 1,
              domainId |-> settings.domainId.n,
              footerDescription |->
                Default(settings.footerDescription, "", settings.footerDescription.s)]
  IN onConflictDoUpdate("domainSettings", "domainId", domainSettings, row,
                        DefinedKeys(settings))

upsertSeoSettings(settings) ==
  LET row == [id |-> seq.seoSettings + 1,
              domainId |-> settings.domainId.n,
              websiteTitle |->
                Default(settings.websiteTitle, "", settings.websiteTitle.s)]
  IN onConflictDoUpdate("seoSettings", "domainId", seoSettings, row,
                        DefinedKeys(settings))

getSeoSettings(domainId) == {x \in seoSettings : x.domainId = domainId}

\* updateSeoSettings, the branch taken when getSeoSettings returned a row:
\* UPDATE seo_settings SET { ...data } WHERE domain_id = domainId
updateSeoSettingsUpdate(domainId, data) ==
  LET upd(x) == [x EXCEPT
                   !.domainId = Default(data.domainId, @, data.domainId.n),
                   !.websiteTitle = Default(data.websiteTitle, @, data.websiteTitle.s)]
      hit == getSeoSettings(domainId)
      new == {upd(x) : x \in hit}
  IN IF \E n \in new : ~DomainExists(n.domainId) THEN Violation(seoSettings)
     ELSE Ok((seoSettings \ hit) \cup new, new)

\* updateSeoSettings, the branch taken when getSeoSettings returned no row:
\* INSERT INTO seo_settings VALUES { ...data, domainId }
updateSeoSettingsInsert(domainId, data) ==
  LET row == [id |-> seq.seoSettings + 1,
              domainId |-> domainId,
              websiteTitle |-> Default(data.websiteTitle, "", data.websiteTitle.s)]
  IN IF ~DomainExists(domainId) THEN Violation(seoSettings)
     ELSE Ok(seoSettings \cup {row}, {row})

createFaq(data) ==
  LET row == [id |-> seq.faqs + 1,
              pageId |-> data.pageId.n,
              question |-> data.question.s,
              answer |-> data.answer.s,
              sortOrder |-> Default(data.sortOrder, 0, data.sortOrder.n),
              isActive |-> Default(data.isActive, TRUE, data.isActive.b)]
  IN IF ~PageExists(row.pageId)
       THEN Violation(faqs)
       ELSE Ok(faqs \cup {row}, {row})

\* updateFaq(id, data): .set({ ...data, updatedAt }) where faqs.id = id
updateFaq(id, data) ==
  LET upd(f) == [f EXCEPT
                   !.pageId = Default(data.pageId, @, data.pageId.n),
                   !.question = Default(data.question, @, data.question.s),
                   !.answer = Default(data.answer, @, data.answer.s),
                   !.sortOrder = Default(data.sortOrder, @, data.sortOrder.n),
                   !.isActive = Default(data.isActive, @, data.isActive.b)]
      hit == {f \in faqs : f.id = id.n}
      new == {upd(f) : f \in hit}
  IN IF id.t = "nan" THEN DbError(faqs)
     ELSE IF \E n \in new : ~PageExists(n.pageId) THEN Violation(faqs)
     ELSE Ok((faqs \ hit) \cup new, new)

deleteFaq(id) ==
  IF id.t = "nan" THEN DbError(faqs)
  ELSE Ok({f \in faqs : f.id # id.n}, {})


(***************************************************************************)
(* Routes (server/routes.ts).                                              *)
(***************************************************************************)
Login == "POST /api/login"
Logout == "POST /api/logout"
ReadRoutes ==
  {"GET /api/auth/user", "GET /api/domains", "GET /api/domains/:domainId/pages",
   "GET /api/domains/:domainId/settings", "GET /api/domains/:domainId/seo",
   "GET /api/domains/:domainId/faqs", "GET /api/users"}
WriteRoutes ==
  {"POST /api/domains", "PUT /api/domains/:id", "DELETE /api/domains/:id",
   "POST /api/domains/:domainId/pages", "PUT /api/pages/:id", "DELETE /api/pages/:id",
   "PUT /api/domains/:domainId/settings", "PUT /api/domains/:domainId/seo",
   "POST /api/domains/:domainId/faqs", "PUT /api/pages/:pageId/faqs/:faqId",
   "DELETE /api/pages/:pageId/faqs/:faqId", "POST /api/users"}
Stats == "GET /api/dashboard/stats"
Routes == {Login, Logout, Stats} \cup ReadRoutes \cup WriteRoutes

\* the routes registered with the isAuthenticated middleware
Guarded == Routes \ {Login, Logout}

\* (mutant) a middleware that calls next() for every session
isAuthenticatedAlways(userId) == TRUE

\* isAuthenticated: req.session && req.session.userId
isAuthenticated(userId) == userId # NoUser

(***************************************************************************)
(* Requests.  A connection's record holds the request (route, path         *)
(* parameters, body), the session express-session loaded for it, its       *)
(* position in the handler and, once answered, the response status.  ops   *)
(* counts the storage statements run for it, fault tells that the database *)
(* failed under it.                                                        *)
(***************************************************************************)
Idle == [pc |-> "idle", route |-> "", sid |-> 0, uid |-> NoUser,
         param |-> <<>>, param2 |-> <<>>, body |-> EmptyBody,
         status |-> 0, fault |-> FALSE, ops |-> 0,
         todo |-> {}, nDomains |-> 0, nPages |-> 0, existing |-> {},
         json |-> {}, domain |-> 0]

Request(route, param, param2, body) ==
  [route |-> route, param |-> param, param2 |-> param2, body |-> body]

InHandler(r, route) == req[r].pc = "handler" /\ req[r].route = route

\* res.status(status).json(rows): the request is over; json holds the rows
\* (objects) of the response body
RespondJson(r, status, ops, fault, rows) ==
  req' = [req EXCEPT ![r].pc = "done", ![r].status = status,
                     ![r].ops = @ + ops, ![r].fault = fault, ![r].json = rows]

\* a response without rows: { message }, { success } or an empty body
Respond(r, status, ops, fault) == RespondJson(r, status, ops, fault, {})

StatsInFlight(q) == q.route = Stats /\ q.pc \in {"handler", "statsLoop"}

\* the record of what the database held while a stats request was in flight;
\* it is kept while the answered request stays on its connection
Observe ==
  snaps' = [r \in Slots |->
              IF StatsInFlight(req'[r])
                THEN (IF StatsInFlight(req[r]) THEN snaps[r] ELSE {})
                       \cup {<<domains', pages'>>}
                ELSE IF req'[r].route = Stats /\ req'[r].pc = "done"
                        /\ (StatsInFlight(req[r]) \/ req'[r] = req[r])
                  THEN snaps[r]
                  ELSE {}]

\* (mutant) the storage call is made although schema.parse threw
tryStorageUnvalidated(parsed, fault, res, tbl) ==
  IF ~fault THEN res ELSE DbError(tbl)

\* the storage call of a try block: skipped when schema.parse threw before
\* it, throwing itself when the database fails
tryStorage(parsed, fault, res, tbl) ==
  IF parsed /\ ~fault THEN res ELSE DbError(tbl)

\* express-session loads the session of the cookie, then the route's
\* middleware runs: isAuthenticated answers 401 or calls the handler
Admit(r, sid, q) ==
  LET new == [Idle EXCEPT !.route = q.route, !.sid = sid,
                          !.uid = sessions[sid], !.param = q.param,
                          !.param2 = q.param2, !.body = q.body]
  IN IF q.route \in Guarded /\ ~isAuthenticated(sessions[sid])
       THEN req' = [req EXCEPT ![r] = [new EXCEPT !.pc = "done", !.status = 401]]
       ELSE req' = [req EXCEPT ![r] = [new EXCEPT !.pc = "handler"]]

Receive(r, sid, q) ==
  /\ q.route \in Routes
  /\ \E b \in Boots : boot[b] = "done"
  /\ req[r].pc \in {"idle", "done"}
  /\ Admit(r, sid, q)
  /\ UNCHANGED <<tables, seq, sessions, boot, plain, loggedOut>>
  /\ UNCHANGED client
  /\ Observe

\* a request no registered route matches: registerRoutes has no handler for
\* it, so what follows the API routes answers, with 404 or with the page of
\* the single-page application; no session or table is touched
AdmitUnrouted(r, sid, q) ==
  \E status \in {200, 404} :
    req' = [req EXCEPT ![r] = [Idle EXCEPT !.route = q.route, !.sid = sid,
                                         !.uid = sessions[sid], !.param = q.param,
                                         !.pc = "done", !.status = status]]

ReceiveUnrouted(r, sid, q) ==
  /\ q.route \notin Routes
  /\ \E b \in Boots : boot[b] = "done"
  /\ req[r].pc \in {"idle", "done"}
  /\ AdmitUnrouted(r, sid, q)
  /\ UNCHANGED <<tables, seq, sessions, boot, plain, loggedOut>>
  /\ UNCHANGED client
  /\ Observe

(***************************************************************************)
(* Authentication (server/auth.ts and the auth routes).                    *)
(***************************************************************************)
AdminEmail == "admin@gmail.com"
AdminPassword == "123456"

\* (mutant) loginUser without bcrypt.compare
loginUserAnyPassword(email, password, fault) ==
  IF fault \/ email.t # "string" \/ password.t # "string" THEN {}
  ELSE getUserByEmail(email.s)

\* loginUser: the user of that email whose hash matches; null otherwise,
\* also when the lookup or bcrypt.compare throws
loginUser(email, password, fault) ==
  IF fault \/ email.t # "string" \/ password.t # "string" THEN {}
  ELSE {u \in getUserByEmail(email.s) : bcryptCompare(password.s, u.password)}

\* { success: true, user: { id, email, firstName, lastName } }
loginBody(u) == [id |-> u.id, email |-> u.email]

HandleLogin(r, fault) ==
  /\ InHandler(r, Login)
  /\ LET user == loginUser(req[r].body.email, req[r].body.password, fault)
     IN IF user # {}
          THEN /\ sessions' = [sessions EXCEPT
                                 ![req[r].sid] = (CHOOSE u \in user : TRUE).id]
               /\ loggedOut' = loggedOut \ {req[r].sid}
               /\ RespondJson(r, 200, 1, fault, {loginBody(u) : u \in user})
          ELSE /\ UNCHANGED <<sessions, loggedOut>>
               /\ Respond(r, 401, 1, fault)
  /\ UNCHANGED <<tables, seq, boot, plain>>
  /\ UNCHANGED client
  /\ Observe

\* (mutant) a logout that answers without deleting the stored session
HandleLogoutKeepsSession(r, fault) ==
  /\ InHandler(r, Logout)
  /\ IF fault
       THEN /\ UNCHANGED <<sessions, loggedOut>>
            /\ Respond(r, 500, 0, fault)
       ELSE /\ UNCHANGED sessions
            /\ loggedOut' = loggedOut \cup {req[r].sid}
            /\ Respond(r, 200, 0, fault)
  /\ UNCHANGED <<tables, seq, boot, plain>>
  /\ UNCHANGED client
  /\ Observe

\* req.session.destroy(cb): the stored session is deleted
HandleLogout(r, fault) ==
  /\ InHandler(r, Logout)
  /\ IF fault
       THEN /\ UNCHANGED <<sessions, loggedOut>>
            /\ Respond(r, 500, 0, fault)
       ELSE /\ sessions' = [sessions EXCEPT ![req[r].sid] = NoUser]
            /\ loggedOut' = loggedOut \cup {req[r].sid}
            /\ Respond(r, 200, 0, fault)
  /\ UNCHANGED <<tables, seq, boot, plain>>
  /\ UNCHANGED client
  /\ Observe

\* initializeDefaultUser, first statement: is there an admin@gmail.com?
BootLookup(b) ==
  /\ boot[b] = "start"
  /\ boot' = [boot EXCEPT ![b] =
                IF getUserByEmail(AdminEmail) # {} THEN "done" ELSE "create"]
  /\ UNCHANGED <<tables, seq, sessions, req, plain, loggedOut>>
  /\ UNCHANGED client
  /\ Observe

\* the arguments of the createUser call of initializeDefaultUser
DefaultUser(salt) ==
  [email |-> Str(AdminEmail), password |-> bcryptHash(AdminPassword, salt),
   role |-> Str("admin"), isActive |-> Bool(TRUE)]

\* initializeDefaultUser, second statement: hash and insert; an error is
\* caught and logged
BootCreate(b) ==
  /\ boot[b] = "create"
  /\ seq.users < MaxUserSeq
  /\ \E salt \in Salts :
       LET res == createUser(DefaultUser(salt))
       IN /\ users' = res.tbl
          /\ seq' = IF res.ok THEN [seq EXCEPT !.users = @ + 1] ELSE seq
          /\ plain' = IF res.ok THEN [plain EXCEPT ![AdminEmail] = AdminPassword]
                      ELSE plain
  /\ boot' = [boot EXCEPT ![b] = "done"]
  /\ UNCHANGED <<domains, pages, domainSettings, seoSettings, faqs, sessions,
                 req, loggedOut>>
  /\ UNCHANGED client
  /\ Observe

\* (mutant) the password stored as submitted
hashPasswordSkipped(data, salt) ==
  [data EXCEPT !.password = PlainText(data.password.s)]

\* validatedData.password = await bcrypt.hash(validatedData.password, 10)
hashPassword(data, salt) ==
  [data EXCEPT !.password = bcryptHash(data.password.s, salt)]

\* const { password, ...userWithoutPassword } = user
userWithoutPassword(u) == [k \in DOMAIN u \ {"password"} |-> u[k]]

HandlePostUsers(r, fault) ==
  /\ InHandler(r, "POST /api/users")
  /\ \E salt \in Salts :
       LET body == req[r].body
           parsed == insertUserSchema(body)
           data == hashPassword(Strip(body, UserKeys), salt)
           res == tryStorage(parsed, fault, createUser(data), users)
       IN /\ parsed /\ ~fault => seq.users < MaxUserSeq
          /\ users' = res.tbl
          /\ seq' = IF res.ok THEN [seq EXCEPT !.users = @ + 1] ELSE seq
          /\ plain' = IF res.ok THEN [plain EXCEPT ![body.email.s] = body.password.s]
                      ELSE plain
          /\ RespondJson(r, IF res.ok THEN 201 ELSE 400, IF parsed THEN 1 ELSE 0,
                         fault, {userWithoutPassword(u) : u \in res.rows})
  /\ UNCHANGED <<domains, pages, domainSettings, seoSettings, faqs, sessions,
                 boot, loggedOut>>
  /\ UNCHANGED client
  /\ Observe

(***************************************************************************)
(* The protected routes.  A handler parses the path parameter and the      *)
(* body, calls storage once and answers; its catch block answers for every *)
(* exception of the try block.                                             *)
(***************************************************************************)
Bump(name) == [seq EXCEPT ![name] = @ + 1]
Stmts(parsed) == IF parsed THEN 1 ELSE 0

\* (mutant) { domainId, ...req.body }: the body's key replaces the path parameter
WithBodyDomainId(body, domainId) ==
  IF body.domainId.t = "undefined" THEN [body EXCEPT !.domainId = domainId] ELSE body

\* { ...req.body, domainId }: the path parameter replaces the body's key
WithDomainId(body, domainId) == [body EXCEPT !.domainId = domainId]

\* what a GET route with one storage call reads
ReadRows(route, id, userId) ==
  CASE route = "GET /api/auth/user" -> getUser(userId)
    [] route = "GET /api/domains" -> domains
    [] route = "GET /api/domains/:domainId/pages" -> getPagesByDomain(id.n)
    [] route = "GET /api/domains/:domainId/settings" -> getDomainSettings(id.n)
    [] route = "GET /api/domains/:domainId/seo" -> getSeoSettings(id.n)
    [] route = "GET /api/users" -> getUsers
    [] OTHER -> {}

\* the GET routes with one storage call: 200 with the rows read, or 500 from
\* the catch block.  storage.getFaqsByDomain is not a method of
\* DatabaseStorage: the call throws before any statement runs
HandleRead(r, fault) ==
  /\ req[r].pc = "handler" /\ req[r].route \in ReadRoutes
  /\ LET id == parseInt(req[r].param)
         takesId == req[r].route \in
                      {"GET /api/domains/:domainId/pages",
                       "GET /api/domains/:domainId/settings",
                       "GET /api/domains/:domainId/seo"}
         noMethod == req[r].route = "GET /api/domains/:domainId/faqs"
         failed == fault \/ noMethod \/ (takesId /\ id.t = "nan")
     IN IF failed
          THEN Respond(r, 500, IF noMethod THEN 0 ELSE 1, fault /\ ~noMethod)
          ELSE RespondJson(r, 200, 1, fault, ReadRows(req[r].route, id, req[r].uid))
  /\ UNCHANGED <<tables, seq, sessions, boot, plain, loggedOut>>
  /\ UNCHANGED client
  /\ Observe

HandlePostDomains(r, fault) ==
  /\ InHandler(r, "POST /api/domains")
  /\ LET body == req[r].body
         parsed == insertDomainSchema(body)
         data == Strip(body, DomainKeys)
         res == tryStorage(parsed, fault, createDomain(data), domains)
     IN /\ res.formed => seq.domains < MaxDomainSeq
        /\ domains' = res.tbl
        /\ seq' = IF res.formed THEN Bump("domains") ELSE seq
        /\ RespondJson(r, IF res.ok THEN 201 ELSE 400, Stmts(parsed), fault,
                       res.rows)
  /\ UNCHANGED <<users, pages, domainSettings, seoSettings, faqs, sessions,
                 boot, plain, loggedOut>>
  /\ UNCHANGED client
  /\ Observe

HandlePutDomains(r, fault) ==
  /\ InHandler(r, "PUT /api/domains/:id")
  /\ LET id == parseInt(req[r].param)
         body == req[r].body
         parsed == insertDomainSchemaPartial(body)
         data == Strip(body, DomainKeys)
         res == tryStorage(parsed, fault, updateDomain(id, data), domains)
     IN /\ domains' = res.tbl
        /\ RespondJson(r, IF res.ok THEN 200 ELSE 400, Stmts(parsed), fault,
                       res.rows)
  /\ UNCHANGED <<users, pages, domainSettings, seoSettings, faqs, seq,
                 sessions, boot, plain, loggedOut>>
  /\ UNCHANGED client
  /\ Observe

HandleDeleteDomains(r, fault) ==
  /\ InHandler(r, "DELETE /api/domains/:id")
  /\ LET id == parseInt(req[r].param)
         res == tryStorage(TRUE, fault, deleteDomain(id), domains)
     IN /\ domains' = res.tbl
        /\ Respond(r, IF res.ok THEN 204 ELSE 400, 1, fault)
  /\ UNCHANGED <<users, pages, domainSettings, seoSettings, faqs, seq,
                 sessions, boot, plain, loggedOut>>
  /\ UNCHANGED client
  /\ Observe

HandlePostPages(r, fault) ==
  /\ InHandler(r, "POST /api/domains/:domainId/pages")
  /\ LET id == parseInt(req[r].param)
         body == WithDomainId(req[r].body, id)
         parsed == insertPageSchema(body)
         data == Strip(body, PageKeys)
         res == tryStorage(parsed, fault, createPage(data), pages)
     IN /\ res.formed => seq.pages < MaxPageSeq
        /\ pages' = res.tbl
        /\ seq' = IF res.formed THEN Bump("pages") ELSE seq
        /\ RespondJson(r, IF res.ok THEN 201 ELSE 400, Stmts(parsed), fault,
                       res.rows)
  /\ UNCHANGED <<users, domains, domainSettings, seoSettings, faqs, sessions,
                 boot, plain, loggedOut>>
  /\ UNCHANGED client
  /\ Observe

HandlePutPages(r, fault) ==
  /\ InHandler(r, "PUT /api/pages/:id")
  /\ LET id == parseInt(req[r].param)
         body == req[r].body
         parsed == insertPageSchemaPartial(body)
         data == Strip(body, PageKeys)
         res == tryStorage(parsed, fault, updatePage(id, data), pages)
     IN /\ pages' = res.tbl
        /\ RespondJson(r, IF res.ok THEN 200 ELSE 400, Stmts(parsed), fault,
                       res.rows)
  /\ UNCHANGED <<users, domains, domainSettings, seoSettings, faqs, seq,
                 sessions, boot, plain, loggedOut>>
  /\ UNCHANGED client
  /\ Observe

HandleDeletePages(r, fault) ==
  /\ InHandler(r, "DELETE /api/pages/:id")
  /\ LET id == parseInt(req[r].param)
         res == tryStorage(TRUE, fault, deletePage(id), pages)
     IN /\ pages' = res.tbl
        /\ faqs' = IF res.ok THEN deletePageCascade(id) ELSE faqs
        /\ Respond(r, IF res.ok THEN 204 ELSE 400, 1, fault)
  /\ UNCHANGED <<users, domains, domainSettings, seoSettings, seq, sessions,
                 boot, plain, loggedOut>>
  /\ UNCHANGED client
  /\ Observe

HandlePutSettings(r, fault) ==
  /\ InHandler(r, "PUT /api/domains/:domainId/settings")
  /\ LET id == parseInt(req[r].param)
         body == WithDomainId(req[r].body, id)
         parsed == insertDomainSettingsSchema(body)
         data == Strip(body, DomainSettingsKeys)
         res == tryStorage(parsed, fault, upsertDomainSettings(data), domainSettings)
     IN /\ res.formed => seq.domainSettings < MaxDomainSeq
        /\ domainSettings' = res.tbl
        /\ seq' = IF res.formed THEN Bump("domainSettings") ELSE seq
        /\ RespondJson(r, IF res.ok THEN 200 ELSE 400, Stmts(parsed), fault,
                       res.rows)
  /\ UNCHANGED <<users, domains, pages, seoSettings, faqs, sessions, boot,
                 plain, loggedOut>>
  /\ UNCHANGED client
  /\ Observe

HandlePutSeo(r, fault) ==
  /\ InHandler(r, "PUT /api/domains/:domainId/seo")
  /\ LET id == parseInt(req[r].param)
         body == WithDomainId(req[r].body, id)
         parsed == insertSeoSettingsSchema(body)
         data == Strip(body, SeoSettingsKeys)
         res == tryStorage(parsed, fault, upsertSeoSettings(data), seoSettings)
     IN /\ res.formed => seq.seoSettings < MaxDomainSeq
        /\ seoSettings' = res.tbl
        /\ seq' = IF res.formed THEN Bump("seoSettings") ELSE seq
        /\ RespondJson(r, IF res.ok THEN 200 ELSE 400, Stmts(parsed), fault,
                       res.rows)
  /\ UNCHANGED <<users, domains, pages, domainSettings, faqs, sessions, boot,
                 plain, loggedOut>>
  /\ UNCHANGED client
  /\ Observe

\* { ...req.body, domainId }: insertFaqSchema knows no domainId and strips it
HandlePostFaqs(r, fault) ==
  /\ InHandler(r, "POST /api/domains/:domainId/faqs")
  /\ LET body == req[r].body
         parsed == insertFaqSchema(body)
         data == Strip(body, FaqKeys)
         res == tryStorage(parsed, fault, createFaq(data), faqs)
     IN /\ res.formed => seq.faqs < MaxFaqSeq
        /\ faqs' = res.tbl
        /\ seq' = IF res.formed THEN Bump("faqs") ELSE seq
        /\ RespondJson(r, IF res.ok THEN 201 ELSE 400, Stmts(parsed), fault,
                       res.rows)
  /\ UNCHANGED <<users, domains, pages, domainSettings, seoSettings, sessions,
                 boot, plain, loggedOut>>
  /\ UNCHANGED client
  /\ Observe

\* the keys { ...x } takes from a number x: none
SpreadOfNumber(x) == EmptyBody

\* storage.updateFaq(pageId, faqId, validatedData) reaches updateFaq(id, data):
\* id is pageId and data is faqId
HandlePutFaqs(r, fault) ==
  /\ InHandler(r, "PUT /api/pages/:pageId/faqs/:faqId")
  /\ LET pageId == parseInt(req[r].param)
         faqId == parseInt(req[r].param2)
         parsed == insertFaqSchemaPartial(req[r].body)
         res == tryStorage(parsed, fault, updateFaq(pageId, SpreadOfNumber(faqId)),
                           faqs)
     IN /\ faqs' = res.tbl
        /\ RespondJson(r, IF res.ok THEN 200 ELSE 400, Stmts(parsed), fault,
                       res.rows)
  /\ UNCHANGED <<users, domains, pages, domainSettings, seoSettings, seq,
                 sessions, boot, plain, loggedOut>>
  /\ UNCHANGED client
  /\ Observe

\* storage.deleteFaq(pageId, faqId) reaches deleteFaq(id): id is pageId
HandleDeleteFaqs(r, fault) ==
  /\ InHandler(r, "DELETE /api/pages/:pageId/faqs/:faqId")
  /\ LET pageId == parseInt(req[r].param)
         res == tryStorage(TRUE, fault, deleteFaq(pageId), faqs)
     IN /\ faqs' = res.tbl
        /\ Respond(r, IF res.ok THEN 204 ELSE 400, 1, fault)
  /\ UNCHANGED <<users, domains, pages, domainSettings, seoSettings, seq,
                 sessions, boot, plain, loggedOut>>
  /\ UNCHANGED client
  /\ Observe

\* GET /api/dashboard/stats, first statement: storage.getDomains()
HandleStatsDomains(r, fault) ==
  /\ InHandler(r, Stats)
  /\ IF fault \/ domains = {}
       THEN RespondJson(r, IF fault THEN 500 ELSE 200, 1, fault,
                        IF fault THEN {} ELSE {[domains |-> 0, pages |-> 0]})
       ELSE req' = [req EXCEPT ![r].pc = "statsLoop",
                               ![r].todo = {d.id : d \in domains},
                               ![r].nDomains = Cardinality(domains),
                               ![r].ops = @ + 1]
  /\ UNCHANGED <<tables, seq, sessions, boot, plain, loggedOut>>
  /\ UNCHANGED client
  /\ Observe

\* GET /api/dashboard/stats, the loop: storage.getPagesByDomain(domain.id)
\* for the next domain read, then the answer
HandleStatsPages(r, fault) ==
  /\ req[r].pc = "statsLoop"
  /\ \E id \in req[r].todo :
       LET total == req[r].nPages + Cardinality(getPagesByDomain(id))
       IN IF fault
            THEN Respond(r, 500, 1, fault)
            ELSE IF req[r].todo = {id}
              THEN req' = [req EXCEPT ![r].pc = "done", ![r].status = 200,
                                      ![r].ops = @ + 1, ![r].todo = {},
                                      ![r].nPages = total,
                                      ![r].json = {[domains |-> req[r].nDomains,
                                                    pages |-> total]}]
              ELSE req' = [req EXCEPT ![r].todo = @ \ {id}, ![r].nPages = total,
                                      ![r].ops = @ + 1]
  /\ UNCHANGED <<tables, seq, sessions, boot, plain, loggedOut>>
  /\ UNCHANGED client
  /\ Observe

(***************************************************************************)
(* storage.updateSeoSettings(domainId, data): two statements, a read and   *)
(* then an insert or an update, with an await between them.                *)
(***************************************************************************)
UpdateSeo == "storage.updateSeoSettings"

\* a caller on connection r enters updateSeoSettings(domainId, data)
CallUpdateSeoSettings(r, domainId, data) ==
  /\ req[r].pc \in {"idle", "done"}
  /\ req' = [req EXCEPT ![r] = [Idle EXCEPT !.pc = "seoRead", !.route = UpdateSeo,
                                            !.param = domainId, !.body = data]]
  /\ UNCHANGED <<tables, seq, sessions, boot, plain, loggedOut>>
  /\ UNCHANGED client
  /\ Observe

\* const existing = await this.getSeoSettings(domainId)
UpdateSeoSettingsRead(r) ==
  /\ req[r].pc = "seoRead"
  /\ req' = [req EXCEPT ![r].pc = "seoWrite", ![r].ops = @ + 1,
                         ![r].existing = getSeoSettings(parseInt(req[r].param).n)]
  /\ UNCHANGED <<tables, seq, sessions, boot, plain, loggedOut>>
  /\ UNCHANGED client
  /\ Observe

\* if (existing) update ... else insert ...
UpdateSeoSettingsWrite(r) ==
  /\ req[r].pc = "seoWrite"
  /\ LET domainId == parseInt(req[r].param).n
         data == req[r].body
         res == IF req[r].existing # {}
                  THEN updateSeoSettingsUpdate(domainId, data)
                  ELSE updateSeoSettingsInsert(domainId, data)
         inserts == req[r].existing = {}
     IN /\ inserts => seq.seoSettings < MaxDomainSeq
        /\ seoSettings' = res.tbl
        /\ seq' = IF inserts THEN Bump("seoSettings") ELSE seq
        /\ Respond(r, IF res.ok THEN 200 ELSE 500, 1, FALSE)
  /\ UNCHANGED <<users, domains, pages, domainSettings, faqs, sessions, boot,
                 plain, loggedOut>>
  /\ UNCHANGED client
  /\ Observe

(***************************************************************************)
(* The seed script (server/seed.ts): one process that runs its statements  *)
(* in order, each awaited, inside one try block whose catch logs the error *)
(* and ends the script.  There is no transaction around them.              *)
(***************************************************************************)
Seed == "seed"
TestDomain == "test-domain.com"

\* (mutant) a seed that does not look at existingDomains.length
existingDomainsIgnored(existingDomains) == TRUE

\* if (existingDomains.length === 0)
existingDomainsEmpty(existingDomains) == existingDomains = {}

\* the rows seed inserts into pages, in the order of its statements
SeedPageName == [seedHome |-> "home", seedAbout |-> "about", seedContact |-> "contact"]
SeedPageNext ==
  [seedHome |-> "seedAbout", seedAbout |-> "seedContact", seedContact |-> "seedFindHome"]
SeedFaqsEnabled == [seedHome |-> TRUE, seedAbout |-> TRUE, seedContact |-> FALSE]
SeedSections ==
  [seedHome |-> Obj({<<"hero", Obj({<<"title", Str("Welcome")>>,
                                    <<"content", Str("This is the home page")>>})>>}),
   seedAbout |-> Obj({<<"content", Obj({<<"title", Str("About")>>,
                                        <<"content", Str("This is the about page")>>})>>}),
   seedContact |-> Obj({<<"contact", Obj({<<"title", Str("Contact")>>,
                                          <<"content", Str("Contact information")>>})>>})]

SeedPage(step, domainId) ==
  [EmptyBody EXCEPT !.domainId = Num(domainId), !.name = Str(SeedPageName[step]),
                    !.status = Str("published"),
                    !.faqsEnabled = Bool(SeedFaqsEnabled[step]),
                    !.sectionsJson = SeedSections[step]]

\* the three FAQs of the home page, by sortOrder
HomeFaqQuestions ==
  <<"What is this website about?", "How do I get started?",
    "Is there customer support?">>

\* db.insert(faqs).values([...]): one statement that inserts every row or,
\* when the page they reference is gone, none
insertHomeFaqs(pageId) ==
  LET rows == {[id |-> seq.faqs + i, pageId |-> pageId,
                question |-> HomeFaqQuestions[i], answer |-> "",
                sortOrder |-> i - 1, isActive |-> TRUE] : i \in 1..3}
  IN IF ~PageExists(pageId) THEN Violation(faqs) ELSE Ok(faqs \cup rows, rows)

\* the catch block, or the end of the script
SeedEnds(r, ops, fault) ==
  req' = [req EXCEPT ![r].pc = "done", ![r].ops = @ + ops, ![r].fault = fault]

\* the script starts: const existingDomains = await db.select().from(domains)
SeedSelectDomains(r, fault) ==
  /\ req[r].pc \in {"idle", "done"}
  /\ LET new == [Idle EXCEPT !.route = Seed, !.ops = 1, !.fault = fault]
     IN IF ~fault /\ existingDomainsEmpty(domains)
          THEN req' = [req EXCEPT ![r] = [new EXCEPT !.pc = "seedDomain"]]
          ELSE req' = [req EXCEPT ![r] = [new EXCEPT !.pc = "done"]]
  /\ UNCHANGED <<tables, seq, sessions, boot, plain, loggedOut>>
  /\ UNCHANGED client
  /\ Observe

\* const [domain] = await db.insert(domains).values({ name: "test-domain.com", ... })
SeedInsertDomain(r, fault) ==
  /\ req[r].pc = "seedDomain"
  /\ LET data == [EmptyBody EXCEPT !.name = Str(TestDomain), !.isActive = Bool(TRUE)]
         res == tryStorage(TRUE, fault, createDomain(data), domains)
     IN /\ domains' = res.tbl
        /\ seq' = IF res.formed THEN Bump("domains") ELSE seq
        /\ IF res.ok
             THEN req' = [req EXCEPT ![r].pc = "seedHome", ![r].ops = @ + 1,
                                     ![r].domain = (CHOOSE d \in res.rows : TRUE).id]
             ELSE SeedEnds(r, 1, fault)
  /\ UNCHANGED <<users, pages, domainSettings, seoSettings, faqs, sessions,
                 boot, plain, loggedOut>>
  /\ UNCHANGED client
  /\ Observe

\* the inserts of the home, about and contact pages, one statement each
SeedInsertPage(r, fault) ==
  /\ req[r].pc \in DOMAIN SeedPageName
  /\ LET step == req[r].pc
         res == tryStorage(TRUE, fault, createPage(SeedPage(step, req[r].domain)),
                           pages)
     IN /\ pages' = res.tbl
        /\ seq' = IF res.formed THEN Bump("pages") ELSE seq
        /\ IF res.ok
             THEN req' = [req EXCEPT ![r].pc = SeedPageNext[step], ![r].ops = @ + 1]
             ELSE SeedEnds(r, 1, fault)
  /\ UNCHANGED <<users, domains, domainSettings, seoSettings, faqs, sessions,
                 boot, plain, loggedOut>>
  /\ UNCHANGED client
  /\ Observe

\* const homePageData = await db.query.pages.findFirst({ where: eq(pages.name,
\* "home") }): some page of that name, of whichever domain, or undefined
SeedFindHome(r, fault) ==
  /\ req[r].pc = "seedFindHome"
  /\ LET named == {p \in pages : p.name = "home"}
     IN IF fault
          THEN SeedEnds(r, 1, fault)
          ELSE \E found \in (IF named = {} THEN {{}} ELSE {{p} : p \in named}) :
                 req' = [req EXCEPT ![r].pc = "seedHomeFaqs", ![r].ops = @ + 1,
                                    ![r].existing = found]
  /\ UNCHANGED <<tables, seq, sessions, boot, plain, loggedOut>>
  /\ UNCHANGED client
  /\ Observe

\* if (homePageData) { await db.insert(faqs).values([...3 rows...]) }
SeedInsertHomeFaqs(r, fault) ==
  /\ req[r].pc = "seedHomeFaqs"
  /\ IF req[r].existing = {}
       THEN /\ req' = [req EXCEPT ![r].pc = "seedAllPages"]
            /\ UNCHANGED <<faqs, seq>>
       ELSE LET homePageData == CHOOSE p \in req[r].existing : TRUE
                res == tryStorage(TRUE, fault, insertHomeFaqs(homePageData.id), faqs)
            IN /\ faqs' = res.tbl
               /\ seq' = IF res.formed THEN [seq EXCEPT !.faqs = @ + 3] ELSE seq
               /\ IF res.ok
                    THEN req' = [req EXCEPT ![r].pc = "seedAllPages", ![r].ops = @ + 1]
                    ELSE SeedEnds(r, 1, fault)
  /\ UNCHANGED <<users, domains, pages, domainSettings, seoSettings, sessions,
                 boot, plain, loggedOut>>
  /\ UNCHANGED client
  /\ Observe

\* const allPages = await db.select().from(pages).where(eq(pages.domainId,
\* domainId)): no domainId is declared in seed.ts, so evaluating the argument
\* throws a ReferenceError before the statement is built.  The catch block
\* logs it; the FAQs of the other pages and the insert into domain_settings,
\* which follow in the try block, are never reached.
SeedSelectAllPages(r) ==
  /\ req[r].pc = "seedAllPages"
  /\ SeedEnds(r, 0, FALSE)
  /\ UNCHANGED <<tables, seq, sessions, boot, plain, loggedOut>>
  /\ UNCHANGED client
  /\ Observe

(***************************************************************************)
(* The admin screens (client/src): React state of the App and Pages        *)
(* components and the TanStack Query cache.  The browser sends its         *)
(* requests on the connections; a query or mutation settles when its       *)
(* response has arrived.                                                   *)
(***************************************************************************)
Browser == 1     \* the session of the browser

\* `${id}` in a request path
PathOf(id) == <<Digits[id + 1]>>

\* query keys, as the GET request the query sends
DomainsKey == <<"GET /api/domains", <<>>>>
StatsKey == <<Stats, <<>>>>
PagesKey(domainId) == <<"GET /api/domains/:domainId/pages", PathOf(domainId)>>
SettingsKey(domainId) == <<"GET /api/domains/:domainId/settings", PathOf(domainId)>>
SeoKey(domainId) == <<"GET /api/domains/:domainId/seo", PathOf(domainId)>>
LoadedFaqsKey(pageId) == <<"GET /api/pages/:id/faqs", PathOf(pageId)>>
CachedIds == 1..2
QueryKeys ==
  {DomainsKey, StatsKey}
    \cup {PagesKey(d) : d \in CachedIds} \cup {SettingsKey(d) : d \in CachedIds}
    \cup {SeoKey(d) : d \in CachedIds} \cup {LoadedFaqsKey(p) : p \in CachedIds}

\* a query without data
NoData == [shape |-> "undefined", rows |-> {}, invalidated |-> FALSE]
NoPending == [kind |-> "none", name |-> "", key |-> <<>>, cancelled |-> FALSE,
              page |-> {}, untouched |-> FALSE, awaited |-> FALSE]

\* the queries of a domain exist once a domain is selected (enabled:
\* !!selectedDomainId), the loadedFaqs query once a page's FAQs are managed
Enabled(k) ==
  \/ k \in {DomainsKey, StatsKey}
  \/ /\ client.selectedDomainId \in CachedIds
     /\ k \in {PagesKey(client.selectedDomainId), SettingsKey(client.selectedDomainId),
               SeoKey(client.selectedDomainId)}
  \/ \E page \in client.managingFaqsForPage :
       page.id \in CachedIds /\ k = LoadedFaqsKey(page.id)

\* a query that has no data yet or was invalidated
Stale(k) == client.cache[k].shape = "undefined" \/ client.cache[k].invalidated

\* the browser puts request q on connection r
Send(r, q) ==
  /\ \E b \in Boots : boot[b] = "done"
  /\ req[r].pc \in {"idle", "done"}
  /\ client.pending[r].kind = "none"
  /\ IF q.route \in Routes THEN Admit(r, Browser, q) ELSE AdmitUnrouted(r, Browser, q)

\* a query fetches: the GET request of its key
Fetch(r, k) ==
  /\ Enabled(k)
  /\ \A o \in Slots : client.pending[o].kind = "query" => client.pending[o].key # k
  /\ Send(r, Request(k[1], k[2], <<>>, EmptyBody))
  /\ client' = [client EXCEPT !.pending[r] =
                  [NoPending EXCEPT !.kind = "query", !.key = k]]
  /\ UNCHANGED <<tables, seq, sessions, boot, plain, loggedOut>>
  /\ Observe

\* a query that has no data yet or was invalidated fetches when it is observed
Refetch(r, k) == Stale(k) /\ Fetch(r, k)

\* the data a response gives a query.  A registered GET route answers 200
\* with JSON.  For a path no route is registered for, the answer is a 404 or
\* the HTML of the application: the query fails (data stays undefined) or
\* gets a value that is no array
Shapes(q) ==
  IF q.status # 200 THEN {"undefined"}
  ELSE IF q.route \in Routes
    THEN {IF q.route \in {Stats, "GET /api/auth/user"} THEN "object" ELSE "array"}
    ELSE {"undefined", "other"}

\* const { data: loadedFaqs } = useQuery(...) in a render with state c
loadedFaqs(c) ==
  IF \E page \in c.managingFaqsForPage : page.id \in CachedIds
    THEN LET page == CHOOSE page \in c.managingFaqsForPage : TRUE
             data == c.cache[LoadedFaqsKey(page.id)]
         IN [shape |-> data.shape, rows |-> data.rows]
    ELSE [shape |-> "undefined", rows |-> {}]

\* loadedFaqs.map(faq => ({ id: faq.id, question: faq.question, ... })),
\* in the order of their ids
FaqRows(rows) ==
  LET ids == {f.id : f \in rows}
      nth[i \in 1..Cardinality(ids)] ==
        CHOOSE id \in ids : Cardinality({o \in ids : o < id}) = i - 1
  IN [i \in 1..Cardinality(ids) |-> [id |-> nth[i], filled |-> TRUE]]

\* useEffect(..., [loadedFaqs, managingFaqsForPage]): after a render in which
\* one of the two differs from the render before, the FAQ list is set from
\* loadedFaqs
useEffectFaqs(before, after) ==
  IF loadedFaqs(before) # loadedFaqs(after)
     \/ before.managingFaqsForPage # after.managingFaqsForPage
    THEN [after EXCEPT !.faqs = IF loadedFaqs(after).shape = "array"
                                  THEN FaqRows(loadedFaqs(after).rows) ELSE <<>>]
    ELSE after

\* a fetch that was cancelled by an invalidation leaves the query as it is,
\* to be fetched again
QuerySettles(r) ==
  /\ client.pending[r].kind = "query"
  /\ req[r].pc = "done"
  /\ \E shape \in Shapes(req[r]) :
       LET k == client.pending[r].key
           data == [shape |-> shape, rows |-> req[r].json, invalidated |-> FALSE]
       IN client' = useEffectFaqs(client,
                      [client EXCEPT
                         !.pending[r] = NoPending,
                         !.cache[k] = IF client.pending[r].cancelled THEN @
                                      ELSE IF shape = "undefined"
                                        THEN [@ EXCEPT !.invalidated = FALSE]
                                        ELSE data])
  /\ UNCHANGED <<tables, seq, sessions, req, boot, plain, loggedOut>>
  /\ Observe

\* queryClient.invalidateQueries({ queryKey }): every query whose key starts
\* with queryKey is marked invalidated and a fetch of it in flight cancelled
Invalidated(c, keys) ==
  [c EXCEPT
     !.cache = [k \in QueryKeys |-> IF k \in keys THEN [@[k] EXCEPT !.invalidated = TRUE]
                                    ELSE @[k]],
     !.pending = [r \in Slots |->
                    IF @[r].kind = "query" /\ @[r].key \in keys
                      THEN [@[r] EXCEPT !.cancelled = TRUE] ELSE @[r]]]

\* the keys that start with ["/api/domains"]
DomainKeysPrefix ==
  {DomainsKey} \cup {PagesKey(d) : d \in CachedIds}
    \cup {SettingsKey(d) : d \in CachedIds} \cup {SeoKey(d) : d \in CachedIds}

\* no dialog is open: the page behind a modal dialog takes no clicks
NoDialog == ~client.isEditorOpen /\ ~client.isFaqDialogOpen

\* onDomainChange(domainId): a domain of the selector's list is chosen
onDomainChange(domainId) ==
  /\ NoDialog
  /\ \E d \in client.cache[DomainsKey].rows : d.id = domainId
  /\ domainId \in CachedIds
  /\ client' = [client EXCEPT !.selectedDomainId = domainId]
  /\ UNCHANGED <<tables, seq, sessions, req, boot, plain, loggedOut>>
  /\ Observe

\* mutation.mutate(variables): the request of mutationFn is sent
Mutate(r, name, q) ==
  /\ Send(r, q)
  /\ client' = [client EXCEPT !.pending[r] =
                  [NoPending EXCEPT !.kind = "mutation", !.name = name]]
  /\ UNCHANGED <<tables, seq, sessions, boot, plain, loggedOut>>
  /\ Observe

(***************************************************************************)
(* The Domains screen (client/src/pages/domains.tsx).                      *)
(***************************************************************************)
\* the domains the screen lists: the data of its domains query
ListedDomains == client.cache[DomainsKey].rows

\* the data of the domain forms: { name, isActive: true }
domainForm(name) == [EmptyBody EXCEPT !.name = Str(name), !.isActive = Bool(TRUE)]

\* the Add Domain dialog is submitted
createDomainMutation(r, name) ==
  /\ NoDialog
  /\ Mutate(r, "createDomain", Request("POST /api/domains", <<>>, <<>>,
                                    domainForm(name)))

\* the Edit dialog of a listed domain is submitted
updateDomainMutation(r, id, name) ==
  /\ NoDialog
  /\ \E domain \in ListedDomains : domain.id = id
  /\ Mutate(r, "updateDomain", Request("PUT /api/domains/:id", PathOf(id), <<>>,
                                       domainForm(name)))

\* handleDelete(domainId): the delete button of a listed domain
deleteDomainMutation(r, id) ==
  /\ NoDialog
  /\ \E domain \in ListedDomains : domain.id = id
  /\ Mutate(r, "deleteDomain", Request("DELETE /api/domains/:id", PathOf(id), <<>>,
                                       EmptyBody))

(***************************************************************************)
(* The page editor (client/src/pages/pages.tsx).                           *)
(***************************************************************************)
RECURSIVE entries(_)
\* Object.entries(x): the entries of an object, in the order of its keys
entries(x) ==
  IF x = {} THEN <<>>
  ELSE LET e == CHOOSE e \in x : TRUE IN <<e>> \o entries(x \ {e})

\* x[key] of a JSON value
Get(x, key) ==
  IF x.t = "object" /\ \E e \in x.o : e[1] = key
    THEN (CHOOSE e \in x.o : e[1] = key)[2]
    ELSE Undefined

\* if (value): JavaScript truth of a JSON value
Truthy(v) ==
  CASE v.t = "string" -> v.s # ""
    [] v.t = "number" -> v.n # 0
    [] v.t = "boolean" -> v.b
    [] v.t = "object" -> TRUE
    [] OTHER -> FALSE

\* handleEditPage: the sections state made from page.sectionsJson
sectionsArray(sectionsJson) ==
  LET sectionsData == Get(sectionsJson, "sections")
      es == entries(sectionsData.o)
  IN IF sectionsData.t = "object"
       THEN [i \in 1..Len(es) |-> [key |-> es[i][1], value |-> es[i][2]]]
       ELSE <<>>

RECURSIVE sectionsReduce(_, _)
\* sections.reduce((acc, section) => { if (section.key && section.value)
\* acc[section.key] = section.value; return acc }, {})
sectionsReduce(sections, acc) ==
  IF sections = <<>> THEN acc
  ELSE LET section == Head(sections)
           next == IF section.key # "" /\ Truthy(section.value)
                     THEN {e \in acc : e[1] # section.key}
                            \cup {<<section.key, section.value>>}
                     ELSE acc
       IN sectionsReduce(Tail(sections), next)

\* const payload = { ...data, sectionsJson: { sections: sectionsObj } }
payload(data, sections) ==
  [data EXCEPT !.sectionsJson = Obj({<<"sections", Obj(sectionsReduce(sections, {}))>>})]

\* pageForm.reset({ name: page.name, ..., sectionsJson: page.sectionsJson || {},
\* status: page.status, faqsEnabled: page.faqsEnabled || false })
pageFormOf(page) ==
  [EmptyBody EXCEPT !.name = Str(page.name), !.sectionsJson = page.sectionsJson,
                    !.status = Str(page.status), !.faqsEnabled = Bool(page.faqsEnabled)]

\* the pages the Pages screen lists: the data of its pages query
ListedPages ==
  IF client.selectedDomainId \in CachedIds
    THEN client.cache[PagesKey(client.selectedDomainId)].rows ELSE {}

\* the Edit button of a listed page
handleEditPage(id) ==
  /\ NoDialog
  /\ \E page \in ListedPages :
       /\ page.id = id
       /\ client' = [client EXCEPT !.editingPage = {page},
                                   !.sections = sectionsArray(page.sectionsJson),
                                   !.pageForm = pageFormOf(page),
                                   !.isEditorOpen = TRUE]
  /\ UNCHANGED <<tables, seq, sessions, req, boot, plain, loggedOut>>
  /\ Observe

\* the Add New Page button
addPageButton ==
  /\ NoDialog
  /\ client.selectedDomainId \in CachedIds
  /\ client' = [client EXCEPT !.editingPage = {}, !.sections = <<>>,
                              !.pageForm = [EmptyBody EXCEPT !.name = Str("new"),
                                                             !.status = Str("draft"),
                                                             !.faqsEnabled = Bool(FALSE),
                                                             !.sectionsJson = Obj({})],
                              !.isEditorOpen = TRUE]
  /\ UNCHANGED <<tables, seq, sessions, req, boot, plain, loggedOut>>
  /\ Observe

\* the Cancel button of the editor
cancelEditor ==
  /\ client.isEditorOpen
  /\ client' = [client EXCEPT !.isEditorOpen = FALSE]
  /\ UNCHANGED <<tables, seq, sessions, req, boot, plain, loggedOut>>
  /\ Observe

\* addSection, then updateSection on the key and the value of the new section
addSection(key, value) ==
  /\ client.isEditorOpen
  /\ Len(client.sections) < MaxSections
  /\ client' = [client EXCEPT !.sections = Append(@, [key |-> key, value |-> Str(value)])]
  /\ UNCHANGED <<tables, seq, sessions, req, boot, plain, loggedOut>>
  /\ Observe

\* onSubmitPage: updatePageMutation.mutate(data) when a page is edited,
\* createPageMutation.mutate(data) otherwise
onSubmitPage(r) ==
  /\ client.isEditorOpen
  /\ \A o \in Slots : client.pending[o].kind # "mutation"
  /\ LET body == payload(client.pageForm, client.sections)
     IN IF client.editingPage # {}
          THEN LET page == CHOOSE page \in client.editingPage : TRUE
               IN /\ Send(r, Request("PUT /api/pages/:id", PathOf(page.id), <<>>, body))
                  /\ client' = [client EXCEPT !.pending[r] =
                                  [NoPending EXCEPT
                                     !.kind = "mutation", !.name = "updatePage",
                                     !.page = {page},
                                     !.untouched =
                                       client.sections = sectionsArray(page.sectionsJson)]]
          ELSE /\ Send(r, Request("POST /api/domains/:domainId/pages",
                                  PathOf(client.selectedDomainId), <<>>, body))
               /\ client' = [client EXCEPT !.pending[r] =
                               [NoPending EXCEPT !.kind = "mutation",
                                                 !.name = "createPage"]]
  /\ UNCHANGED <<tables, seq, sessions, boot, plain, loggedOut>>
  /\ Observe

\* the delete button of a listed page: deletePageMutation.mutate(page.id)
deletePageMutation(r, id) ==
  /\ NoDialog
  /\ \E page \in ListedPages : page.id = id
  /\ Mutate(r, "deletePage", Request("DELETE /api/pages/:id", PathOf(id), <<>>,
                                     EmptyBody))

\* what onSuccess of a mutation invalidates, with the selectedDomainId and
\* managingFaqsForPage of the render it runs in
InvalidatedBy(name) ==
  LET pagesKeys == IF client.selectedDomainId \in CachedIds
                     THEN {PagesKey(client.selectedDomainId)} ELSE {}
      faqsKeys == {LoadedFaqsKey(page.id) :
                     page \in {m \in client.managingFaqsForPage : m.id \in CachedIds}}
  IN CASE name = "createDomain" -> DomainKeysPrefix \cup {StatsKey}
       [] name = "updateDomain" -> DomainKeysPrefix
       [] name = "deleteDomain" -> DomainKeysPrefix \cup {StatsKey}
       [] name = "createPage" -> pagesKeys \cup {StatsKey}
       [] name \in {"createFaq", "updateFaq", "deleteFaq"} -> faqsKeys
       [] name = "updatePage" -> pagesKeys
       [] name = "deletePage" -> pagesKeys \cup {StatsKey}
       [] OTHER -> {}

\* the state onSuccess resets
Closed(c, name) ==
  CASE name = "createPage" -> [c EXCEPT !.isEditorOpen = FALSE, !.sections = <<>>]
    [] name = "updatePage" ->
         [c EXCEPT !.isEditorOpen = FALSE, !.editingPage = {}, !.sections = <<>>]
    [] OTHER -> c

\* a mutation settles: onSuccess for a 2xx answer, onError (a toast) otherwise
MutationSettles(r) ==
  /\ client.pending[r].kind = "mutation"
  /\ req[r].pc = "done"
  /\ LET name == client.pending[r].name
         settled == [client EXCEPT !.pending[r] = NoPending]
     IN client' = IF req[r].status < 400
                    THEN Closed(Invalidated(settled, InvalidatedBy(name)), name)
                    ELSE IF client.pending[r].awaited
                      THEN [settled EXCEPT !.isSaving = FALSE, !.saving = <<>>]
                      ELSE settled
  /\ UNCHANGED <<tables, seq, sessions, req, boot, plain, loggedOut>>
  /\ Observe

(***************************************************************************)
(* The FAQ dialog (client/src/pages/pages.tsx).  A FAQ of the dialog's     *)
(* list is its id (0: none yet) and whether question and answer are        *)
(* filled in.                                                              *)
(***************************************************************************)
dummyFaqs ==
  <<[id |-> 1, filled |-> TRUE], [id |-> 2, filled |-> TRUE],
    [id |-> 3, filled |-> TRUE]>>

\* the Manage FAQs button of a listed page with FAQs enabled.  The handler
\* sees the loadedFaqs of the render it was made in; loadedFaqs.map throws
\* when loadedFaqs is no array, after setManagingFaqsForPage(page).  The
\* effect follows the render.
handleManageFaqs(id) ==
  /\ NoDialog
  /\ ~client.isSaving
  /\ \E page \in ListedPages :
       /\ page.id = id
       /\ page.faqsEnabled
       /\ LET loaded == loadedFaqs(client)
              managing == [client EXCEPT !.managingFaqsForPage = {page}]
              handled ==
                IF loaded.shape = "undefined" \/ (loaded.shape = "array" /\ loaded.rows = {})
                  THEN [managing EXCEPT !.faqs = dummyFaqs, !.isFaqDialogOpen = TRUE]
                  ELSE IF loaded.shape = "array"
                    THEN [managing EXCEPT !.faqs = FaqRows(loaded.rows),
                                          !.isFaqDialogOpen = TRUE]
                    ELSE managing
          IN client' = useEffectFaqs(client, handled)
  /\ UNCHANGED <<tables, seq, sessions, req, boot, plain, loggedOut>>
  /\ Observe

\* the Cancel button of the dialog: setIsFaqDialogOpen(false)
cancelFaqDialog ==
  /\ client.isFaqDialogOpen
  /\ client' = [client EXCEPT !.isFaqDialogOpen = FALSE]
  /\ UNCHANGED <<tables, seq, sessions, req, boot, plain, loggedOut>>
  /\ Observe

\* addFaq, then updateFaq on the question and the answer of the new FAQ
addFaq(filled) ==
  /\ client.isFaqDialogOpen
  /\ Cardinality({i \in 1..Len(client.faqs) : client.faqs[i].id = 0}) < MaxDialogFaqs
  /\ client' = [client EXCEPT !.faqs = Append(@, [id |-> 0, filled |-> filled])]
  /\ UNCHANGED <<tables, seq, sessions, req, boot, plain, loggedOut>>
  /\ Observe

\* faqs.filter((_, i) => i !== index)
Without(list, index) ==
  [i \in 1..(Len(list) - 1) |-> IF i < index THEN list[i] ELSE list[i + 1]]

\* removeFaq(index): deleteFaqMutation.mutate(faq.id) if the FAQ has an id
removeFaq(r, index) ==
  /\ client.isFaqDialogOpen
  /\ index \in 1..Len(client.faqs)
  /\ LET faq == client.faqs[index]
         removed == [client EXCEPT !.faqs = Without(@, index)]
     IN IF faq.id # 0
          THEN /\ Send(r, Request("DELETE /api/faqs/:id", PathOf(faq.id), <<>>, EmptyBody))
               /\ client' = [removed EXCEPT !.pending[r] =
                               [NoPending EXCEPT !.kind = "mutation",
                                                 !.name = "deleteFaq"]]
          ELSE /\ client' = removed
               /\ UNCHANGED req
  /\ UNCHANGED <<tables, seq, sessions, boot, plain, loggedOut>>
  /\ Observe

\* for (const faq of faqs) if (faq.question && faq.answer)
Filled(list) == SelectSeq(list, LAMBDA faq : faq.filled)

\* the Save button: saveFaqs starts with the FAQ list of its render
saveFaqs ==
  /\ client.isFaqDialogOpen
  /\ ~client.isSaving
  /\ client' = [client EXCEPT !.isSaving = TRUE, !.saving = Filled(client.faqs)]
  /\ UNCHANGED <<tables, seq, sessions, req, boot, plain, loggedOut>>
  /\ Observe

\* saveFaqs goes on: await updateFaqMutation.mutateAsync for a FAQ with an
\* id, await createFaqMutation.mutateAsync for one without; after the last,
\* setIsFaqDialogOpen(false) and setManagingFaqsForPage(null).  A rejected
\* mutateAsync ends saveFaqs (MutationSettles)
saveFaqsStep(r) ==
  /\ client.isSaving
  /\ \A o \in Slots : ~client.pending[o].awaited
  /\ IF client.saving = <<>>
       THEN /\ client' = useEffectFaqs(client,
                           [client EXCEPT !.isSaving = FALSE,
                                          !.isFaqDialogOpen = FALSE,
                                          !.managingFaqsForPage = {}])
            /\ UNCHANGED req
       ELSE LET faq == Head(client.saving)
                managed == IF client.managingFaqsForPage = {} THEN 0
                           ELSE (CHOOSE page \in client.managingFaqsForPage : TRUE).id
                name == IF faq.id # 0 THEN "updateFaq" ELSE "createFaq"
            IN /\ IF faq.id # 0
                    THEN Send(r, Request("PUT /api/faqs/:id", PathOf(faq.id), <<>>,
                                         EmptyBody))
                    ELSE Send(r, Request("POST /api/pages/:id/faqs", PathOf(managed),
                                         <<>>, EmptyBody))
               /\ client' = [client EXCEPT
                               !.saving = Tail(@),
                               !.pending[r] = [NoPending EXCEPT !.kind = "mutation",
                                                                !.name = name,
                                                                !.awaited = TRUE]]
  /\ UNCHANGED <<tables, seq, sessions, boot, plain, loggedOut>>
  /\ Observe

\* the admin screens before anything is loaded or clicked
ClientInit ==
  [selectedDomainId |-> 0,
   cache |-> [k \in QueryKeys |-> NoData],
   pending |-> [r \in Slots |-> NoPending],
   isEditorOpen |-> FALSE, editingPage |-> {}, sections |-> <<>>,
   pageForm |-> EmptyBody,
   isFaqDialogOpen |-> FALSE, managingFaqsForPage |-> {}, faqs |-> <<>>,
   isSaving |-> FALSE, saving |-> <<>>]

Init ==
  /\ users = {} /\ domains = {} /\ pages = {}
  /\ domainSettings = {} /\ seoSettings = {} /\ faqs = {}
  /\ seq = [users |-> 0, domains |-> 0, pages |-> 0, domainSettings |-> 0,
            seoSettings |-> 0, faqs |-> 0]
  /\ sessions = [s \in Sids |-> NoUser]
  /\ req = [r \in Slots |-> Idle]
  /\ boot = [b \in Boots |-> "start"]
  /\ plain = [e \in Emails |-> ""]
  /\ loggedOut = {}
  /\ snaps = [r \in Slots |-> {}]
  /\ client = ClientInit

(***************************************************************************)
(* Request inputs.                                                         *)
(***************************************************************************)
Cred(email, password) ==
  [EmptyBody EXCEPT !.email = Str(email), !.password = Str(password)]
NamedDomain(name) == [EmptyBody EXCEPT !.name = name]
NamedPage(name) == [EmptyBody EXCEPT !.name = name]
Question(pageId, q) ==
  [EmptyBody EXCEPT !.pageId = pageId, !.question = q, !.answer = Str("a")]
Footer(text) == [EmptyBody EXCEPT !.footerDescription = text]
Title(text) == [EmptyBody EXCEPT !.websiteTitle = text]
One == <<"1">>
NotANumber == <<"x">>

AdminLogin == Request(Login, <<>>, <<>>, Cred(AdminEmail, AdminPassword))

\* the Logout button of the top navigation:
\* window.location.href = "/api/logout", a GET navigation
handleLogout == Request("GET /api/logout", <<>>, <<>>, EmptyBody)
LogoutRequest == Request(Logout, <<>>, <<>>, EmptyBody)

\* one request per GET route
ReadRequests ==
  {Request(route, One, <<>>, EmptyBody) : route \in ReadRoutes \cup {Stats}}

\* per write route, a well-formed request
ValidWrites ==
  {Request("POST /api/domains", <<>>, <<>>, NamedDomain(Str("a.com"))),
   Request("PUT /api/domains/:id", One, <<>>, NamedDomain(Str("a.com"))),
   Request("DELETE /api/domains/:id", One, <<>>, EmptyBody),
   Request("POST /api/domains/:domainId/pages", One, <<>>, NamedPage(Str("home"))),
   Request("PUT /api/pages/:id", One, <<>>, NamedPage(Str("home"))),
   Request("DELETE /api/pages/:id", One, <<>>, EmptyBody),
   Request("PUT /api/domains/:domainId/settings", One, <<>>, Footer(Str("footer"))),
   Request("PUT /api/domains/:domainId/seo", One, <<>>, Title(Str("title"))),
   Request("POST /api/domains/:domainId/faqs", One, <<>>, Question(Num(1), Str("q"))),
   Request("PUT /api/pages/:pageId/faqs/:faqId", One, One, Question(Num(1), Str("q"))),
   Request("DELETE /api/pages/:pageId/faqs/:faqId", One, One, EmptyBody),
   Request("POST /api/users", <<>>, <<>>, Cred("bob@x.io", "hunter2"))}

\* per create or update route, a request whose body the schema rejects
InvalidWrites ==
  {Request("POST /api/domains", <<>>, <<>>, NamedDomain(Undefined)),
   Request("PUT /api/domains/:id", One, <<>>, NamedDomain(Num(7))),
   Request("POST /api/domains/:domainId/pages", One, <<>>, NamedPage(Num(7))),
   Request("PUT /api/pages/:id", One, <<>>, NamedPage(Num(7))),
   Request("PUT /api/domains/:domainId/settings", One, <<>>, Footer(Num(7))),
   Request("PUT /api/domains/:domainId/seo", One, <<>>, Title(Num(7))),
   Request("POST /api/domains/:domainId/faqs", One, <<>>, Question(Num(1), Undefined)),
   Request("PUT /api/pages/:pageId/faqs/:faqId", One, One, Question(Str("1"), Str("q"))),
   Request("POST /api/users", <<>>, <<>>,
           [Cred("bob@x.io", "hunter2") EXCEPT !.password = Num(7)])}

Handle(r, fault) ==
  \/ HandleLogin(r, fault) \/ HandleLogout(r, fault) \/ HandlePostUsers(r, fault)
  \/ HandleRead(r, fault)
  \/ HandlePostDomains(r, fault) \/ HandlePutDomains(r, fault)
  \/ HandleDeleteDomains(r, fault)
  \/ HandlePostPages(r, fault) \/ HandlePutPages(r, fault)
  \/ HandleDeletePages(r, fault)
  \/ HandlePutSettings(r, fault) \/ HandlePutSeo(r, fault)
  \/ HandlePostFaqs(r, fault) \/ HandlePutFaqs(r, fault)
  \/ HandleDeleteFaqs(r, fault)
  \/ HandleStatsDomains(r, fault) \/ HandleStatsPages(r, fault)

(***************************************************************************)
(* Spec: the whole API, one browser, one request at a time, the database   *)
(* failing at any statement.                                               *)
(***************************************************************************)
SpecRequests ==
  {AdminLogin, LogoutRequest,
   Request("GET /api/domains/:domainId/pages", NotANumber, <<>>, EmptyBody)}
    \cup ReadRequests \cup ValidWrites \cup InvalidWrites

Next ==
  \/ BootLookup(1)
  \/ BootCreate(1)
  \/ \E q \in SpecRequests : Receive(1, 1, q)
  \/ \E fault \in BOOLEAN : Handle(1, fault)

Spec == Init /\ [][Next]_vars

(***************************************************************************)
(* SpecDomains: two connections of one logged-in browser create and rename *)
(* domains at the same time.                                               *)
(***************************************************************************)
Two == <<"2">>

DomainRequests ==
  {AdminLogin}
    \cup {Request("POST /api/domains", <<>>, <<>>, NamedDomain(Str(n))) :
            n \in {"a.com", "b.com"}}
    \cup {Request("PUT /api/domains/:id", id, <<>>, NamedDomain(Str(n))) :
            id \in {One, Two}, n \in {"a.com", "b.com"}}

NextDomains ==
  \/ BootLookup(1)
  \/ BootCreate(1)
  \/ \E r \in Slots : \E q \in DomainRequests : Receive(r, 1, q)
  \/ \E r \in Slots : HandleLogin(r, FALSE)
  \/ \E r \in Slots : HandlePostDomains(r, FALSE)
  \/ \E r \in Slots : HandlePutDomains(r, FALSE)

SpecDomains == Init /\ [][NextDomains]_vars

(***************************************************************************)
(* SpecAuth: log in, log out and create users on two connections of one    *)
(* browser while the server starts twice (two instances on one database).  *)
(***************************************************************************)
Logins ==
  {Request(Login, <<>>, <<>>, Cred(e, p)) :
     e \in Emails, p \in {AdminPassword, "hunter2"}}

UserRequests ==
  {Request("POST /api/users", <<>>, <<>>, Cred(e, "hunter2")) : e \in Emails}

AuthRequests ==
  Logins \cup UserRequests
    \cup {LogoutRequest, Request("GET /api/auth/user", <<>>, <<>>, EmptyBody)}

NextAuth ==
  \/ \E b \in Boots : BootLookup(b)
  \/ \E b \in Boots : BootCreate(b)
  \/ \E q \in AuthRequests : Receive(1, 1, q)
  \/ \E q \in UserRequests : Receive(2, 1, q)
  \/ \E r \in Slots : \E fault \in BOOLEAN : HandleLogin(r, fault)
  \/ \E r \in Slots : \E fault \in BOOLEAN : HandleLogout(r, fault)
  \/ \E r \in Slots : \E fault \in BOOLEAN : HandlePostUsers(r, fault)
  \/ \E r \in Slots : \E fault \in BOOLEAN : HandleRead(r, fault)

SpecAuth == Init /\ [][NextAuth]_vars

(***************************************************************************)
(* SpecGate: one connection logs in and out while another connection of    *)
(* the same browser calls every protected route.                           *)
(***************************************************************************)
\* every protected route once.  The create requests are ones the database
\* refuses after the first domain: the page names a domain and the FAQ a page
\* that do not exist, the user an email that does
GateRequests ==
  ReadRequests
    \cup {q \in ValidWrites :
            q.route \notin {"POST /api/domains/:domainId/pages", "POST /api/users"}}
    \cup {Request("POST /api/domains/:domainId/pages", Two, <<>>,
                  NamedPage(Str("home"))),
          Request("POST /api/users", <<>>, <<>>, Cred(AdminEmail, "hunter2"))}

NextGate ==
  \/ BootLookup(1)
  \/ BootCreate(1)
  \/ \E q \in {AdminLogin, LogoutRequest} : Receive(1, 1, q)
  \/ \E q \in GateRequests : Receive(2, 1, q)
  \/ \E r \in Slots : Handle(r, FALSE)

SpecGate == Init /\ [][NextGate]_vars

(***************************************************************************)
(* SpecSeo: once a domain exists, two callers save its SEO settings        *)
(* through storage.updateSeoSettings at the same time.                     *)
(***************************************************************************)
SeoData == {Title(Str("t1")), Title(Str("t2"))}

NextSeo ==
  \/ BootLookup(1)
  \/ BootCreate(1)
  \/ \E q \in {AdminLogin, Request("POST /api/domains", <<>>, <<>>,
                                    NamedDomain(Str("a.com")))} : Receive(1, 1, q)
  \/ HandleLogin(1, FALSE)
  \/ HandlePostDomains(1, FALSE)
  \/ \E r \in Slots : \E data \in SeoData : CallUpdateSeoSettings(r, One, data)
  \/ \E r \in Slots : UpdateSeoSettingsRead(r)
  \/ \E r \in Slots : UpdateSeoSettingsWrite(r)

SpecSeo == Init /\ [][NextSeo]_vars

(***************************************************************************)
(* SpecFaqs: one logged-in browser creates pages and FAQs and updates and  *)
(* deletes them.                                                           *)
(***************************************************************************)
Ids == {One, Two}

FaqRequests ==
  {AdminLogin,
   Request("POST /api/domains", <<>>, <<>>, NamedDomain(Str("a.com"))),
   Request("POST /api/domains/:domainId/pages", One, <<>>, NamedPage(Str("home")))}
    \cup {Request("POST /api/domains/:domainId/faqs", One, <<>>,
                  Question(Num(n), Str("q"))) : n \in 1..3}
    \cup {Request("DELETE /api/pages/:id", id, <<>>, EmptyBody) : id \in Ids}
    \cup {Request("PUT /api/pages/:pageId/faqs/:faqId", pageId, faqId,
                  Question(Undefined, Str("q2"))) : pageId \in Ids, faqId \in Ids}
    \cup {Request("DELETE /api/pages/:pageId/faqs/:faqId", pageId, faqId,
                  EmptyBody) : pageId \in Ids, faqId \in Ids}

NextFaqs ==
  \/ BootLookup(1)
  \/ BootCreate(1)
  \/ \E q \in FaqRequests : Receive(1, 1, q)
  \/ HandleLogin(1, FALSE)
  \/ HandlePostDomains(1, FALSE)
  \/ HandlePostPages(1, FALSE)
  \/ HandleDeletePages(1, FALSE)
  \/ HandlePostFaqs(1, FALSE)
  \/ HandlePutFaqs(1, FALSE)
  \/ HandleDeleteFaqs(1, FALSE)

SpecFaqs == Init /\ [][NextFaqs]_vars

(***************************************************************************)
(* SpecRefs: one logged-in browser creates, moves and deletes domains and  *)
(* pages while SEO settings are saved through storage.updateSeoSettings.   *)
(***************************************************************************)
MovedPage(domainId) == [EmptyBody EXCEPT !.domainId = Num(domainId)]

RefRequests ==
  {AdminLogin}
    \cup {Request("POST /api/domains", <<>>, <<>>, NamedDomain(Str(n))) :
            n \in {"a.com", "b.com"}}
    \cup {Request("POST /api/domains/:domainId/pages", One, <<>>,
                  NamedPage(Str("home"))),
          Request("PUT /api/pages/:id", One, <<>>, MovedPage(2)),
          Request("DELETE /api/pages/:id", One, <<>>, EmptyBody)}
    \cup {Request("DELETE /api/domains/:id", id, <<>>, EmptyBody) : id \in Ids}

NextRefs ==
  \/ BootLookup(1)
  \/ BootCreate(1)
  \/ \E q \in RefRequests : Receive(1, 1, q)
  \/ HandleLogin(1, FALSE)
  \/ HandlePostDomains(1, FALSE)
  \/ HandleDeleteDomains(1, FALSE)
  \/ HandlePostPages(1, FALSE)
  \/ HandlePutPages(1, FALSE)
  \/ HandleDeletePages(1, FALSE)
  \/ CallUpdateSeoSettings(2, One, Title(Str("t1")))
  \/ UpdateSeoSettingsRead(2)
  \/ UpdateSeoSettingsWrite(2)

SpecRefs == Init /\ [][NextRefs]_vars

(***************************************************************************)
(* SpecDefaults: one logged-in browser creates rows with and without their *)
(* optional fields and updates single fields.                              *)
(***************************************************************************)
DefaultsRequests ==
  {AdminLogin,
   Request("POST /api/domains", <<>>, <<>>, NamedDomain(Str("a.com"))),
   Request("PUT /api/domains/:id", One, <<>>, NamedDomain(Str("c.com"))),
   Request("PUT /api/domains/:id", One, <<>>,
           [EmptyBody EXCEPT !.isActive = Bool(FALSE)]),
   Request("POST /api/domains/:domainId/pages", One, <<>>, NamedPage(Str("home"))),
   Request("PUT /api/pages/:id", One, <<>>, NamedPage(Str("about"))),
   Request("PUT /api/pages/:id", One, <<>>,
           [EmptyBody EXCEPT !.status = Str("published")]),
   Request("POST /api/domains/:domainId/faqs", One, <<>>, Question(Num(1), Str("q"))),
   Request("POST /api/domains/:domainId/faqs", One, <<>>,
           [Question(Num(1), Str("q")) EXCEPT !.sortOrder = Num(5)]),
   Request("PUT /api/pages/:pageId/faqs/:faqId", One, One,
           Question(Undefined, Str("q2"))),
   Request("POST /api/users", <<>>, <<>>, Cred("bob@x.io", "hunter2"))}

NextDefaults ==
  \/ BootLookup(1)
  \/ BootCreate(1)
  \/ \E q \in DefaultsRequests : Receive(1, 1, q)
  \/ HandleLogin(1, FALSE)
  \/ HandlePostDomains(1, FALSE)
  \/ HandlePutDomains(1, FALSE)
  \/ HandlePostPages(1, FALSE)
  \/ HandlePutPages(1, FALSE)
  \/ HandlePostFaqs(1, FALSE)
  \/ HandlePutFaqs(1, FALSE)
  \/ HandlePostUsers(1, FALSE)

SpecDefaults == Init /\ [][NextDefaults]_vars

(***************************************************************************)
(* SpecTenant: one logged-in browser works on two domains through the      *)
(* routes whose URL names the domain.                                      *)
(***************************************************************************)
TenantRequests ==
  {AdminLogin}
    \cup {Request("POST /api/domains", <<>>, <<>>, NamedDomain(Str(n))) :
            n \in {"a.com", "b.com"}}
    \cup {Request("POST /api/domains/:domainId/pages", id, <<>>, body) :
            id \in Ids \cup {NotANumber},
            body \in {NamedPage(Str("home")),
                      [NamedPage(Str("home")) EXCEPT !.domainId = Num(2)]}}
    \cup {Request("GET /api/domains/:domainId/pages", id, <<>>, EmptyBody) : id \in Ids}
    \cup {Request("PUT /api/domains/:domainId/settings", id, <<>>,
                  [Footer(Str("footer")) EXCEPT !.domainId = Num(2)]) :
            id \in {One, NotANumber}}
    \cup {Request("PUT /api/domains/:domainId/seo", id, <<>>,
                  [Title(Str("title")) EXCEPT !.domainId = Num(2)]) :
            id \in {One, NotANumber}}
    \cup {Request("POST /api/domains/:domainId/faqs", One, <<>>,
                  Question(Num(n), Str("q"))) : n \in 1..2}

NextTenant ==
  \/ BootLookup(1)
  \/ BootCreate(1)
  \/ \E q \in TenantRequests : Receive(1, 1, q)
  \/ HandleLogin(1, FALSE)
  \/ HandleRead(1, FALSE)
  \/ HandlePostDomains(1, FALSE)
  \/ HandlePostPages(1, FALSE)
  \/ HandlePutSettings(1, FALSE)
  \/ HandlePutSeo(1, FALSE)
  \/ HandlePostFaqs(1, FALSE)

SpecTenant == Init /\ [][NextTenant]_vars

(***************************************************************************)
(* SpecLogoutButton: two browsers, each with its session, log in, call a   *)
(* protected route and click the Logout button.                            *)
(***************************************************************************)
ButtonRequests ==
  {AdminLogin, LogoutRequest, Request("GET /api/auth/user", <<>>, <<>>, EmptyBody),
   Request("GET /api/users", <<>>, <<>>, EmptyBody)}

NextLogoutButton ==
  \/ BootLookup(1)
  \/ BootCreate(1)
  \/ \E r \in Slots : \E q \in ButtonRequests : Receive(r, r, q)
  \/ \E r \in Slots : ReceiveUnrouted(r, r, handleLogout)
  \/ \E r \in Slots : HandleLogin(r, FALSE)
  \/ \E r \in Slots : HandleLogout(r, FALSE)
  \/ \E r \in Slots : HandleRead(r, FALSE)

SpecLogoutButton == Init /\ [][NextLogoutButton]_vars

(***************************************************************************)
(* SpecSeed: the seed script is run from two shells, one after the other   *)
(* or at the same time, with the database failing at any statement, while  *)
(* a logged-in browser creates a domain of its own.                        *)
(***************************************************************************)
NextSeed ==
  \/ BootLookup(1)
  \/ BootCreate(1)
  \/ \E q \in {AdminLogin, Request("POST /api/domains", <<>>, <<>>,
                                    NamedDomain(Str("a.com")))} : Receive(2, 1, q)
  \/ HandleLogin(2, FALSE)
  \/ HandlePostDomains(2, FALSE)
  \/ \E r \in Slots : \E fault \in BOOLEAN : SeedSelectDomains(r, fault)
  \/ \E r \in Slots : \E fault \in BOOLEAN : SeedInsertDomain(r, fault)
  \/ \E r \in Slots : \E fault \in BOOLEAN : SeedInsertPage(r, fault)
  \/ \E r \in Slots : \E fault \in BOOLEAN : SeedFindHome(r, fault)
  \/ \E r \in Slots : \E fault \in BOOLEAN : SeedInsertHomeFaqs(r, fault)
  \/ \E r \in Slots : SeedSelectAllPages(r)

SpecSeed == Init /\ [][NextSeed]_vars

(***************************************************************************)
(* SpecStats: one connection of a logged-in browser asks for the dashboard *)
(* stats while another creates domains and creates and deletes             *)
(* pages.                                                                  *)
(***************************************************************************)
StatsRequest == Request(Stats, <<>>, <<>>, EmptyBody)

StatsWrites ==
  {Request("POST /api/domains", <<>>, <<>>, NamedDomain(Str(n))) :
     n \in {"a.com", "b.com"}}
    \cup {Request("POST /api/domains/:domainId/pages", One, <<>>,
                  NamedPage(Str("home"))),
          Request("DELETE /api/pages/:id", One, <<>>, EmptyBody)}

NextStats ==
  \/ BootLookup(1)
  \/ BootCreate(1)
  \/ \E q \in {AdminLogin, StatsRequest} : Receive(1, 1, q)
  \/ \E q \in StatsWrites : Receive(2, 1, q)
  \/ HandleLogin(1, FALSE)
  \/ HandleStatsDomains(1, FALSE)
  \/ HandleStatsPages(1, FALSE)
  \/ HandlePostDomains(2, FALSE)
  \/ HandlePostPages(2, FALSE)
  \/ HandleDeletePages(2, FALSE)

SpecStats == Init /\ [][NextStats]_vars

\* the administrator signs in with the browser, after the seed script if
\* the database is seeded
BrowserLogin(r, seeded) ==
  /\ seeded => \E o \in Slots : req[o].route = Seed /\ req[o].pc = "done"
  /\ client.pending[r].kind = "none"
  /\ sessions[Browser] = 0
  /\ Receive(r, Browser, AdminLogin)

(***************************************************************************)
(* SpecEditor: the seed script has run; a browser logs in, loads the       *)
(* domains and the pages of one, opens the page editor on a page, adds     *)
(* sections or not, and saves.                                             *)
(***************************************************************************)
NextEditor ==
  \/ BootLookup(1)
  \/ BootCreate(1)
  \/ SeedSelectDomains(2, FALSE)
  \/ SeedInsertDomain(2, FALSE)
  \/ SeedInsertPage(2, FALSE)
  \/ SeedFindHome(2, FALSE)
  \/ SeedInsertHomeFaqs(2, FALSE)
  \/ SeedSelectAllPages(2)
  \/ BrowserLogin(1, TRUE)
  \/ HandleLogin(1, FALSE)
  \/ \E k \in {DomainsKey, PagesKey(1)} : Refetch(1, k)
  \/ HandleRead(1, FALSE)
  \/ QuerySettles(1)
  \/ onDomainChange(1)
  \/ \E id \in 1..MaxPageSeq : handleEditPage(id)
  \/ \E value \in {"", "text"} : addSection("intro", value)
  \/ cancelEditor
  \/ onSubmitPage(1)
  \/ HandlePutPages(1, FALSE)
  \/ MutationSettles(1)

SpecEditor == Init /\ [][NextEditor]_vars

(***************************************************************************)
(* SpecFaqDialog: the seed script has run; a browser logs in, loads the    *)
(* domains, the pages of one and the FAQs of the managed page, and opens,  *)
(* cancels and re-opens the FAQ dialog, adds and removes FAQs and saves.   *)
(***************************************************************************)
NextFaqDialog ==
  \/ BootLookup(1)
  \/ BootCreate(1)
  \/ SeedSelectDomains(2, FALSE)
  \/ SeedInsertDomain(2, FALSE)
  \/ SeedInsertPage(2, FALSE)
  \/ SeedFindHome(2, FALSE)
  \/ SeedInsertHomeFaqs(2, FALSE)
  \/ SeedSelectAllPages(2)
  \/ BrowserLogin(1, TRUE)
  \/ HandleLogin(1, FALSE)
  \/ \E k \in {DomainsKey, PagesKey(1), LoadedFaqsKey(1), LoadedFaqsKey(2)} :
       Refetch(1, k)
  \/ HandleRead(1, FALSE)
  \/ QuerySettles(1)
  \/ onDomainChange(1)
  \/ \E id \in 1..MaxPageSeq : handleManageFaqs(id)
  \/ cancelFaqDialog
  \/ addFaq(TRUE)
  \/ \E index \in 1..Len(dummyFaqs) : removeFaq(1, index)
  \/ saveFaqs
  \/ saveFaqsStep(1)
  \/ MutationSettles(1)

SpecFaqDialog == Init /\ [][NextFaqDialog]_vars

(***************************************************************************)
(* SpecCache: a browser logs in on an empty database, watches the domains, *)
(* the stats and the pages of the selected domain, and creates, renames    *)
(* and deletes domains and creates and deletes pages.                      *)
(***************************************************************************)
NextCache ==
  \/ BootLookup(1)
  \/ BootCreate(1)
  \/ BrowserLogin(1, FALSE)
  \/ HandleLogin(1, FALSE)
  \/ \E k \in {DomainsKey, StatsKey, PagesKey(1), PagesKey(2)} : Refetch(1, k)
  \/ HandleRead(1, FALSE)
  \/ HandleStatsDomains(1, FALSE)
  \/ HandleStatsPages(1, FALSE)
  \/ QuerySettles(1)
  \/ \E domainId \in CachedIds : onDomainChange(domainId)
  \/ createDomainMutation(1, "a.com")
  \/ updateDomainMutation(1, 1, "b.com")
  \/ deleteDomainMutation(1, 2)
  \/ addPageButton
  \/ onSubmitPage(1)
  \/ deletePageMutation(1, 1)
  \/ HandlePostDomains(1, FALSE)
  \/ HandlePutDomains(1, FALSE)
  \/ HandleDeleteDomains(1, FALSE)
  \/ HandlePostPages(1, FALSE)
  \/ HandleDeletePages(1, FALSE)
  \/ MutationSettles(1)

SpecCache == Init /\ [][NextCache]_vars

(***************************************************************************)
(* Properties.                                                             *)
(***************************************************************************)
\* the step in which connection r's handler answers
Answers(r) == req[r].pc = "handler" /\ req'[r].pc = "done"

\* the handler's schema.parse throws on request q
ParseFails(q) ==
  LET merged == WithDomainId(q.body, parseInt(q.param))
  IN CASE q.route = "POST /api/domains" -> ~insertDomainSchema(q.body)
       [] q.route = "PUT /api/domains/:id" -> ~insertDomainSchemaPartial(q.body)
       [] q.route = "POST /api/domains/:domainId/pages" -> ~insertPageSchema(merged)
       [] q.route = "PUT /api/pages/:id" -> ~insertPageSchemaPartial(q.body)
       [] q.route = "PUT /api/domains/:domainId/settings" ->
            ~insertDomainSettingsSchema(merged)
       [] q.route = "PUT /api/domains/:domainId/seo" -> ~insertSeoSettingsSchema(merged)
       [] q.route = "POST /api/domains/:domainId/faqs" -> ~insertFaqSchema(q.body)
       [] q.route = "PUT /api/pages/:pageId/faqs/:faqId" ->
            ~insertFaqSchemaPartial(q.body)
       [] q.route = "POST /api/users" -> ~insertUserSchema(q.body)
       [] OTHER -> FALSE

\* the step in which express-session and the route's middleware take a new
\* request on connection r
Received(r) == req[r].pc \in {"idle", "done"} /\ req'[r] # req[r]

\* the step in which a storage statement runs for the request of connection r
StorageStep(r) == req'[r].ops > req[r].ops /\ req[r].pc \notin {"idle", "done"}

\* C1, first half: a request to a route other than login and logout whose
\* session carries no userId is answered 401 and no storage statement runs
\* for it.
Gate401 ==
  \A r \in Slots :
    (/\ Received(r)
     /\ req'[r].route \in Routes \ {Login, Logout}
     /\ sessions[req'[r].sid] = NoUser)
      => /\ req'[r].pc = "done" /\ req'[r].status = 401
         /\ req'[r].ops = 0
         /\ tables' = tables /\ seq' = seq

\* C1 (as amended): a request to a route other than login and logout whose
\* session carries no userId is answered 401 without any storage read or
\* write, and a storage statement of a protected route only runs for a
\* request whose session carried a userId when the request was admitted.
C1_GateAtAdmission ==
  [][/\ Gate401
     /\ \A r \in Slots :
          (StorageStep(r) /\ req[r].route \in Routes \ {Login, Logout})
            => req[r].uid # NoUser]_vars

\* C1 witness: with domains stored, a request to a protected route was
\* answered 401 without a storage statement, on a session that had logged out.
C1_Witness ==
  \E r \in Slots :
    /\ req[r].pc = "done" /\ req[r].route = "GET /api/domains"
    /\ req[r].status = 401 /\ req[r].ops = 0
    /\ req[r].sid \in loggedOut
    /\ domains # {}

\* C1 (as stated): ... and a storage statement of a protected route only
\* runs while the session is one in which a login succeeded and no logout
\* followed.
C1_GateAtEveryStatement ==
  [][/\ Gate401
     /\ \A r \in Slots :
          (StorageStep(r) /\ req[r].route \in Routes \ {Login, Logout})
            => (sessions[req[r].sid] # NoUser /\ req[r].sid \notin loggedOut)]_vars

\* no two domain rows have the same name
DomainNamesUnique ==
  \A d1 \in domains : \A d2 \in domains : d1.name = d2.name => d1 = d2

\* the request q would give a second domain row the name of another one
IntroducesDuplicateName(q) ==
  LET id == parseInt(q.param)
  IN \/ /\ q.route = "POST /api/domains"
        /\ insertDomainSchema(q.body)
        /\ \E d \in domains : d.name = q.body.name.s
     \/ /\ q.route = "PUT /api/domains/:id"
        /\ insertDomainSchemaPartial(q.body) /\ zString(q.body.name)
        /\ id.t = "number" /\ DomainExists(id.n)
        /\ \E d \in domains : d.id # id.n /\ d.name = q.body.name.s

\* C2: under every interleaving of POST /api/domains and PUT /api/domains/:id
\* no two domain rows have the same name, and a request that would introduce
\* a duplicate name gets an error status and leaves the domains table unchanged.
C2_DuplicateNameRejected ==
  /\ []DomainNamesUnique
  /\ [][\A r \in Slots :
          (Answers(r) /\ IntroducesDuplicateName(req[r]))
            => (req'[r].status >= 400 /\ domains' = domains)]_vars

\* C2 witness: two domains exist and a rename of one to the other's name was
\* answered 400 while the other connection had a request in its handler.
C2_Witness ==
  \E r \in Slots : \E o \in Slots \ {r} :
    /\ req[r].pc = "done" /\ req[r].route = "PUT /api/domains/:id"
    /\ req[r].status = 400
    /\ Cardinality(domains) = 2
    /\ req[o].pc = "handler"

\* C3: DELETE /api/domains/:id of a domain that has pages succeeds, and
\* afterwards the domain row is gone and no page row with that domainId remains.
C3_DeleteDomainCascades ==
  [][\A r \in Slots :
       LET id == parseInt(req[r].param)
       IN (/\ Answers(r)
           /\ req[r].route = "DELETE /api/domains/:id"
           /\ ~req'[r].fault
           /\ id.t = "number" /\ DomainExists(id.n)
           /\ \E p \in pages : p.domainId = id.n)
          => /\ req'[r].status = 204
             /\ \A d \in domains' : d.id # id.n
             /\ \A p \in pages' : p.domainId # id.n]_vars

\* C4: a create or update request whose body fails the schema validation of
\* its handler is answered 400 and leaves every table as it was.
C4_InvalidBodyRejected ==
  [][\A r \in Slots :
       (Answers(r) /\ ParseFails(req[r]))
         => (req'[r].status = 400 /\ tables' = tables)]_vars

\* C4 witness: with rows in the database, a request with an invalid body was
\* answered 400.
C4_Witness ==
  \E r \in Slots :
    /\ req[r].pc = "done" /\ ParseFails(req[r]) /\ req[r].status = 400
    /\ req[r].route = "PUT /api/pages/:id"
    /\ pages # {}

\* C5: a request that is authenticated and well-formed and under which the
\* database fails is answered 500.
C5_UnexpectedFailureIs500 ==
  \A r \in Slots :
    (/\ req[r].pc = "done" /\ req[r].fault
     /\ req[r].route \in Guarded \cup {Login}
     /\ ~ParseFails(req[r]))
      => req[r].status = 500

\* C10: a PUT /api/domains/:domainId/settings for an existing domain succeeds,
\* the first one and every repeated one, and leaves exactly one
\* domain_settings row for that domain.
C10_SettingsUpsertSucceeds ==
  [][\A r \in Slots :
       LET id == parseInt(req[r].param)
       IN (/\ Answers(r)
           /\ req[r].route = "PUT /api/domains/:domainId/settings"
           /\ ~req'[r].fault /\ ~ParseFails(req[r])
           /\ id.t = "number" /\ DomainExists(id.n))
          => /\ req'[r].status = 200
             /\ Cardinality({x \in domainSettings' : x.domainId = id.n}) = 1]_vars

\* the users a login with this body matches: the email exists and the
\* password matches that user's stored hash
Matching(body) ==
  {u \in users : /\ body.email.t = "string" /\ body.password.t = "string"
                 /\ u.email = body.email.s
                 /\ bcryptCompare(body.password.s, u.password)}

\* C6: POST /api/login stores a userId in the session only when a user with
\* the submitted email exists and the password matches that user's stored
\* hash, and then exactly that user's id; otherwise it answers 401 and the
\* session is unchanged.
C6_LoginStoresMatchingUser ==
  [][\A r \in Slots :
       (Answers(r) /\ req[r].route = Login)
         => IF req'[r].status = 200
              THEN \E u \in Matching(req[r].body) : sessions'[req[r].sid] = u.id
              ELSE req'[r].status = 401 /\ sessions' = sessions]_vars

\* C6 witness: on a session that carries a userId, a login with an existing
\* email and a wrong password was answered 401 and the userId is still there.
C6_Witness ==
  \E r \in Slots :
    /\ req[r].pc = "done" /\ req[r].route = Login /\ ~req[r].fault
    /\ req[r].status = 401
    /\ getUserByEmail(req[r].body.email.s) # {}
    /\ sessions[req[r].sid] # NoUser

\* C7: after a successful logout, every request then received on that
\* session for a protected route is answered 401, until a login succeeds.
C7_LoggedOutIs401 ==
  [][\A r \in Slots :
       (/\ Received(r)
        /\ req'[r].route \in Routes \ {Login, Logout}
        /\ req'[r].sid \in loggedOut)
         => (req'[r].pc = "done" /\ req'[r].status = 401)]_vars

\* C7 witness: a session that had logged in and then out was answered 401
\* on a protected route.
C7_Witness ==
  \E r \in Slots :
    /\ req[r].pc = "done" /\ req[r].route = "GET /api/auth/user"
    /\ req[r].status = 401
    /\ req[r].sid \in loggedOut

\* every stored password is a bcrypt hash of the password the user was
\* created with, and not that password itself
StoredHashed ==
  \A u \in users :
    /\ u.password # PlainText(plain[u.email])
    /\ \E salt \in Salts : u.password = bcryptHash(plain[u.email], salt)

\* C8: the stored password of every user created by POST /api/users or by
\* the default-admin initialisation with password p is the hash of p and not
\* p, and a login with that user's email (the database working) succeeds
\* for p and fails for every other password.
C8_PasswordsHashed ==
  /\ []StoredHashed
  /\ [][\A r \in Slots :
          LET body == req[r].body
          IN (/\ Answers(r) /\ req[r].route = Login /\ ~req'[r].fault
              /\ body.email.t = "string" /\ body.password.t = "string"
              /\ getUserByEmail(body.email.s) # {})
             => (req'[r].status = 200 <=> body.password.s = plain[body.email.s])]_vars

\* C8 witness: a user created by POST /api/users with password "hunter2" has
\* logged in with it.
C8_Witness ==
  \E r \in Slots :
    /\ req[r].pc = "done" /\ req[r].route = Login /\ req[r].status = 200
    /\ req[r].body.email = Str("bob@x.io")
    /\ plain["bob@x.io"] = "hunter2"
    /\ \E u \in users : u.email = "bob@x.io" /\ sessions[req[r].sid] = u.id

\* no two user rows have the same email
EmailsUnique ==
  \A u1 \in users : \A u2 \in users : u1.email = u2.email => u1 = u2

\* C9: under every interleaving of POST /api/users requests and start-ups no
\* two user rows share an email, and a POST /api/users with an email that
\* exists is answered with an error status and leaves the users table unchanged.
C9_EmailUnique ==
  /\ []EmailsUnique
  /\ [][\A r \in Slots :
          (/\ Answers(r) /\ req[r].route = "POST /api/users"
           /\ insertUserSchema(req[r].body)
           /\ getUserByEmail(req[r].body.email.s) # {})
            => (req'[r].status >= 400 /\ users' = users)]_vars

\* C9 witness: after both start-ups ran, a POST /api/users with the admin's
\* email, under a working database, was answered 400 and one admin row exists.
C9_Witness ==
  \E r \in Slots :
    /\ req[r].pc = "done" /\ req[r].route = "POST /api/users" /\ ~req[r].fault
    /\ req[r].body.email = Str(AdminEmail) /\ req[r].status = 400
    /\ \A b \in Boots : boot[b] = "done"
    /\ Cardinality(getUserByEmail(AdminEmail)) = 1

FaqsReferencePages == \A f \in faqs : PageExists(f.pageId)

\* C12: every FAQ row references an existing page, and a successful
\* DELETE /api/pages/:id removes all FAQs of that page and no FAQ of any
\* other page.
C12_FaqBelongsToPage ==
  /\ []FaqsReferencePages
  /\ [][\A r \in Slots :
          LET id == parseInt(req[r].param)
          IN (/\ Answers(r) /\ req[r].route = "DELETE /api/pages/:id"
              /\ req'[r].status = 204)
             => faqs' = {f \in faqs : f.pageId # id.n}]_vars

\* C12 witness: a page that had a FAQ was deleted while another page keeps
\* its FAQ.
C12_Witness ==
  \E r \in Slots :
    /\ req[r].pc = "done" /\ req[r].route = "DELETE /api/pages/:id"
    /\ req[r].status = 204
    /\ seq.faqs = 2 /\ Cardinality(faqs) = 1 /\ Cardinality(pages) = 1
    /\ \A f \in faqs : f.pageId # parseInt(req[r].param).n

\* C13: in every reachable state each page, domain_settings and
\* seo_settings row references a domain row that exists.
C13_RowsReferenceDomains ==
  /\ \A p \in pages : DomainExists(p.domainId)
  /\ \A x \in domainSettings : DomainExists(x.domainId)
  /\ \A x \in seoSettings : DomainExists(x.domainId)

\* C13 witness: the delete of a domain that has no page but a seo_settings
\* row was refused, after a page had been created.
C13_Witness ==
  \E r \in Slots :
    /\ req[r].pc = "done" /\ req[r].route = "DELETE /api/domains/:id"
    /\ req[r].status = 400
    /\ seq.pages > 0
    /\ \A p \in pages : p.domainId # parseInt(req[r].param).n
    /\ \E x \in seoSettings : x.domainId = parseInt(req[r].param).n

\* the field f of the rows of new that old has not: d when the body leaves
\* it out
CreatedWith(old, new, body, f, d) ==
  \A x \in new \ old : body[f].t = "undefined" => x[f] = d

\* the field f of the rows of old that new still has: kept when the body
\* leaves it out
KeptIn(old, new, body, f) ==
  \A x \in old : \A y \in new :
    (x.id = y.id /\ body[f].t = "undefined") => y[f] = x[f]

\* C14: a row created without its optional fields gets the schema defaults
\* (page: status "draft", faqsEnabled false; domain: isActive true; user:
\* role "admin", isActive true; FAQ: sortOrder 0, isActive true), and an
\* update that does not mention such a field leaves its value unchanged.
C14_Defaults ==
  [][\A r \in Slots :
       LET b == req[r].body
       IN Answers(r) =>
            /\ req[r].route = "POST /api/domains" =>
                 CreatedWith(domains, domains', b, "isActive", TRUE)
            /\ req[r].route = "POST /api/domains/:domainId/pages" =>
                 /\ CreatedWith(pages, pages', b, "status", "draft")
                 /\ CreatedWith(pages, pages', b, "faqsEnabled", FALSE)
            /\ req[r].route = "POST /api/domains/:domainId/faqs" =>
                 /\ CreatedWith(faqs, faqs', b, "sortOrder", 0)
                 /\ CreatedWith(faqs, faqs', b, "isActive", TRUE)
            /\ req[r].route = "POST /api/users" =>
                 /\ CreatedWith(users, users', b, "role", "admin")
                 /\ CreatedWith(users, users', b, "isActive", TRUE)
            /\ req[r].route = "PUT /api/domains/:id" =>
                 KeptIn(domains, domains', b, "isActive")
            /\ req[r].route = "PUT /api/pages/:id" =>
                 /\ KeptIn(pages, pages', b, "status")
                 /\ KeptIn(pages, pages', b, "faqsEnabled")
            /\ req[r].route = "PUT /api/pages/:pageId/faqs/:faqId" =>
                 /\ KeptIn(faqs, faqs', b, "sortOrder")
                 /\ KeptIn(faqs, faqs', b, "isActive")]_vars

\* C14 witness: a page created with the defaults and then published was
\* renamed by an update without status and is still published, next to a
\* page that has the defaults.
C14_Witness ==
  \E r \in Slots :
    /\ req[r].pc = "done" /\ req[r].route = "PUT /api/pages/:id"
    /\ req[r].status = 200
    /\ \E p \in pages : p.name = "about" /\ p.status = "published" /\ ~p.faqsEnabled
    /\ \E p \in pages : p.status = "draft" /\ ~p.faqsEnabled

\* the domain a row belongs to: a FAQ belongs to the domain of its page
FaqDomains(f, pgs) == {p.domainId : p \in {x \in pgs : x.id = f.pageId}}

\* the routes whose URL names the domain they write to
DomainWrites ==
  {"POST /api/domains/:domainId/pages", "PUT /api/domains/:domainId/settings",
   "PUT /api/domains/:domainId/seo", "POST /api/domains/:domainId/faqs"}

\* C15: a request whose URL names domain D never creates, modifies or
\* deletes a row that belongs to another domain, and GET
\* /api/domains/D/pages returns exactly the pages whose domainId is D.
C15_TenantIsolation ==
  [][\A r \in Slots :
       LET D == parseInt(req[r].param).n
       IN Answers(r) =>
            /\ req[r].route \in DomainWrites =>
                 /\ \A p \in (pages' \ pages) \cup (pages \ pages') : p.domainId = D
                 /\ \A x \in (domainSettings' \ domainSettings)
                                \cup (domainSettings \ domainSettings') : x.domainId = D
                 /\ \A x \in (seoSettings' \ seoSettings)
                                \cup (seoSettings \ seoSettings') : x.domainId = D
                 /\ \A f \in (faqs' \ faqs) \cup (faqs \ faqs') :
                      FaqDomains(f, pages') \subseteq {D}
            /\ (req[r].route = "GET /api/domains/:domainId/pages"
                  /\ req'[r].status = 200) =>
                 req'[r].json = {p \in pages : p.domainId = D}]_vars

C16_LogoutButtonEndsSession ==
  \A r \in Slots :
    (req[r].pc = "done" /\ req[r].route = handleLogout.route)
      => ~isAuthenticated(sessions[req[r].sid])

\* C17: DELETE /api/pages/:pageId/faqs/:faqId removes exactly the FAQ whose
\* id is faqId, and only if it belongs to page pageId; every other FAQ row
\* is left unchanged.
C17_DeletesNamedFaq ==
  [][\A r \in Slots :
       LET pageId == parseInt(req[r].param)
           faqId == parseInt(req[r].param2)
       IN (/\ Answers(r)
           /\ req[r].route = "DELETE /api/pages/:pageId/faqs/:faqId"
           /\ req'[r].status = 204)
          => faqs' = {f \in faqs : ~(f.id = faqId.n /\ f.pageId = pageId.n)}]_vars

\* the FAQ f with the fields of the body applied
Applied(f, body) ==
  [f EXCEPT !.question = Default(body.question, @, body.question.s),
            !.answer = Default(body.answer, @, body.answer.s),
            !.sortOrder = Default(body.sortOrder, @, body.sortOrder.n),
            !.isActive = Default(body.isActive, @, body.isActive.b)]

\* C18: PUT /api/pages/:pageId/faqs/:faqId applies the validated body fields
\* to the FAQ whose id is faqId, returns that updated FAQ and changes no
\* other FAQ row.
C18_UpdatesNamedFaq ==
  [][\A r \in Slots :
       LET faqId == parseInt(req[r].param2)
           hit == {f \in faqs : f.id = faqId.n}
           new == {Applied(f, req[r].body) : f \in hit}
       IN (/\ Answers(r)
           /\ req[r].route = "PUT /api/pages/:pageId/faqs/:faqId"
           /\ req'[r].status = 200)
          => /\ faqs' = (faqs \ hit) \cup new
             /\ req'[r].json = new]_vars

\* C19: no response body contains a user's password field, plain or hashed.
C19_NoPasswordInResponses ==
  \A r \in Slots :
    req[r].pc = "done" => \A row \in req[r].json : "password" \notin DOMAIN row

\* the user rows of the default admin's email
DefaultAdmins == {u \in users : u.email = AdminEmail}

\* C21: under every interleaving of start-ups there is never more than one
\* admin@gmail.com user and, once a start-up is over, exactly one; a start-up
\* whose lookup runs when this user exists ends there and leaves the users
\* table and its id generator as they are.
C21_DefaultAdminIdempotent ==
  /\ [](Cardinality(DefaultAdmins) <= 1)
  /\ []((\E b \in Boots : boot[b] = "done") => Cardinality(DefaultAdmins) = 1)
  /\ [][\A b \in Boots :
          (boot[b] = "start" /\ boot'[b] # "start" /\ DefaultAdmins # {})
            => (boot'[b] = "done" /\ users' = users /\ seq' = seq)]_vars

\* C21 witness: every start-up is over, the sequence handed out one user id
\* and the one admin@gmail.com row carries the hash of the default password.
C21_Witness ==
  /\ \A b \in Boots : boot[b] = "done"
  /\ seq.users = 1
  /\ \E u \in users :
       DefaultAdmins = {u} /\ bcryptCompare(AdminPassword, u.password)

\* the step in which a seed run on connection r makes its first statement
SeedStarts(r) ==
  req[r].pc \in {"idle", "done"} /\ req'[r].route = Seed /\ req'[r] # req[r]

\* C22: a seed run that starts when at least one domain row exists ends with
\* its first statement and changes no table and no sequence; so a second run
\* after a run that created the test domain leaves the database as it was.
C22_SeedSkipsWhenDomainExists ==
  [][\A r \in Slots :
       (SeedStarts(r) /\ domains # {})
         => (req'[r].pc = "done" /\ tables' = tables /\ seq' = seq)]_vars

\* C22 witness: a seed run that found the rows of an earlier run (the test
\* domain and its three pages) is over after its one statement, which did
\* not fail.
C22_Witness ==
  \E r \in Slots :
    /\ req[r].route = Seed /\ req[r].pc = "done"
    /\ req[r].ops = 1 /\ ~req[r].fault
    /\ \E d \in domains :
         d.name = TestDomain /\ Cardinality(getPagesByDomain(d.id)) = 3

\* the seed data is complete for domain d: the pages home, about and contact
\* and no other, FAQs for exactly the pages with faqsEnabled, and one
\* domain_settings row
SeedComplete(d) ==
  /\ {p.name : p \in getPagesByDomain(d.id)} = {"home", "about", "contact"}
  /\ Cardinality(getPagesByDomain(d.id)) = 3
  /\ \A p \in getPagesByDomain(d.id) :
       p.faqsEnabled <=> (\E f \in faqs : f.pageId = p.id)
  /\ Cardinality(getDomainSettings(d.id)) = 1

\* C23: once a seed run that found no domain and met no database failure is
\* over, there is exactly one domain test-domain.com and the seed data is
\* complete for it.
C23_SeedRunsThrough ==
  \A r \in Slots :
    (/\ req[r].route = Seed /\ req[r].pc = "done"
     /\ ~req[r].fault /\ req[r].domain # 0)
      => \E d \in domains :
           /\ d.name = TestDomain
           /\ \A e \in domains : e.name = TestDomain => e = d
           /\ SeedComplete(d)

\* C24: when no seed run is in progress the database holds none of the seed
\* rows or all of them.
C24_SeedAllOrNothing ==
  (\A r \in Slots : req[r].route = Seed => req[r].pc = "done")
    => \/ /\ ~\E d \in domains : d.name = TestDomain
          /\ ~\E f \in faqs : f.question \in {HomeFaqQuestions[i] : i \in 1..3}
       \/ \E d \in domains : d.name = TestDomain /\ SeedComplete(d)

\* the stats request on connection r has been answered with its numbers
StatsAnswered(r) ==
  req[r].route = Stats /\ req[r].pc = "done" /\ req[r].status = 200

\* C25 (as stated): the numbers of a stats answer are the row counts of the
\* domains and pages tables at one single instant between the arrival of the
\* request and its answer.
C25_StatsIsSnapshot ==
  \A r \in Slots :
    StatsAnswered(r)
      => \E s \in snaps[r] :
           req[r].json = {[domains |-> Cardinality(s[1]), pages |-> Cardinality(s[2])]}

\* C25 (amended): the domains number of a stats answer is the number of domain
\* rows at one instant of the request; the pages number is the number of page
\* rows when the domains and pages tables did not change while the request
\* was in flight.
C25_StatsPerStatement ==
  \A r \in Slots :
    StatsAnswered(r)
      => \A row \in req[r].json :
           /\ \E s \in snaps[r] : row.domains = Cardinality(s[1])
           /\ Cardinality(snaps[r]) = 1
                => \A s \in snaps[r] : row.pages = Cardinality(s[2])

\* C25 witness: a stats answer that counted two domains and a page, for a
\* request during which the tables changed.
C25_Witness ==
  \E r \in Slots :
    /\ StatsAnswered(r)
    /\ req[r].json = {[domains |-> 2, pages |-> 1]}
    /\ Cardinality(snaps[r]) > 1

\* the save of an edited page whose sections the user left as they were
\* loaded, answered 200 on connection r, while the stored page still had the
\* sectionsJson that was loaded into the editor
SavedUntouched(r) ==
  /\ client.pending[r].name = "updatePage"
  /\ client.pending[r].untouched
  /\ InHandler(r, "PUT /api/pages/:id")
  /\ req'[r].pc = "done" /\ req'[r].status = 200
  /\ \E page \in client.pending[r].page : \E stored \in pages :
       stored.id = page.id /\ stored.sectionsJson = page.sectionsJson

\* C27: editing a page and saving it without touching its sections leaves
\* the stored sectionsJson of the page as it was, whatever its value
C27_UntouchedSectionsKept ==
  [][\A r \in Slots :
       SavedUntouched(r) =>
         \A page \in client.pending[r].page : \A stored \in pages' :
           stored.id = page.id => stored.sectionsJson = page.sectionsJson]_vars

\* the browser sends an update or a delete of a FAQ on connection r
FaqRequestSent(r) ==
  /\ req'[r] # req[r]
  /\ req'[r].route \in {"PUT /api/faqs/:id", "DELETE /api/faqs/:id"}

\* the ids of the FAQs the server sent for the page whose FAQs are managed
LoadedIds ==
  IF loadedFaqs(client).shape = "array"
    THEN {faq.id : faq \in loadedFaqs(client).rows} ELSE {}

\* C28: whatever the sequence of opening, cancelling, re-opening, removing
\* and saving, an update or delete the FAQ dialog sends names a FAQ that was
\* loaded from the server for the page being managed
C28_OnlyLoadedFaqsSent ==
  [][\A r \in Slots :
       FaqRequestSent(r) => parseInt(req'[r].param) \in LoadedIds]_vars

\* what the server answers to the GET request of a query now
ServerResult(k) ==
  IF k = StatsKey
    THEN {[domains |-> Cardinality(domains),
           pages |-> Cardinality({p \in pages : \E d \in domains : p.domainId = d.id})]}
    ELSE ReadRows(k[1], parseInt(k[2]), sessions[Browser])

\* no mutation of the browser is in flight
MutationsSettled == \A r \in Slots : client.pending[r].kind # "mutation"

\* C26: once the mutations of the admin screens have settled, a cached query
\* that is not invalidated holds what the server answers now: every query a
\* mutation changed was invalidated, to be fetched again
C26_ChangedQueriesInvalidated ==
  MutationsSettled
    => \A k \in QueryKeys :
         (client.cache[k].shape # "undefined" /\ ~client.cache[k].invalidated)
           => client.cache[k].rows = ServerResult(k)

=============================================================================
